---- MODULE Spec2Model ----
(***************************************************************************)
(* A model of rvue: the pairing engine and the changeset builder of        *)
(* src/src/diff.rs and the event-stream decoders and free-text parsers of  *)
(* src/src/gradebook.rs.                                                   *)
(*                                                                         *)
(* Conventions.                                                            *)
(*   Option<T>   a sequence of length 0 (None) or 1 (Some(x)).             *)
(*   &V          an index into the slice the reference points into.        *)
(*   HashMap     a function whose DOMAIN is the set of keys present; the   *)
(*               order in which it is iterated is not specified by the     *)
(*               library, so every operation that iterates a map takes the *)
(*               iteration order as an argument and the action that calls  *)
(*               it chooses that order freely.                             *)
(*   panic       a result record with panic = TRUE.                        *)
(*   cursor      the event iterator is the sequence of its items and the   *)
(*               number of items pulled so far; the decoders run one pull  *)
(*               at a time, the calls in progress on a stack.              *)
(***************************************************************************)
EXTENDS Integers, Sequences, FiniteSets, TLC

VARIABLES
    old,      \* the older input of a pairing or diff call
    new,      \* the newer input of a pairing or diff call
    events,   \* the event sequence handed to a decoder
    out,      \* the value the call returned
    pc,       \* "call" before the operation ran, "done" after it
    cursor,   \* the number of items pulled off the event iterator
    stack,    \* the decoder or parser calls in progress, the outermost first
    calls     \* the decoder calls that returned, in the order of their return

vars == <<old, new, events, out, pc, cursor, stack, calls>>

None == <<>>
Some(x) == <<x>>
IsSome(o) == Len(o) = 1
IsNone(o) == Len(o) = 0

\* The result of a call that returned normally, and of one that panicked.
Returned(v) == [panic |-> FALSE, val |-> v]
Panicked == [panic |-> TRUE, val |-> None]

(***************************************************************************)
(* Bounds of the model.                                                    *)
(***************************************************************************)
MaxPairLen == 3
MaxCourses == 2
MaxMarks == 2
MaxAssignments == 2

\* All sequences over S of length at most n.
RECURSIVE SeqsUpTo(_, _)
SeqsUpTo(S, n) ==
    IF n = 0 THEN {<<>>}
    ELSE LET shorter == SeqsUpTo(S, n - 1)
         IN shorter \cup {Append(s, x) : s \in {t \in shorter : Len(t) = n - 1}, x \in S}

\* All orders in which the elements of the finite set S can be enumerated.
RECURSIVE IterationOrders(_)
IterationOrders(S) ==
    IF S = {} THEN {<<>>}
    ELSE UNION {{<<x>> \o s : s \in IterationOrders(S \ {x})} : x \in S}

(***************************************************************************)
(* The domain model of src/src/gradebook.rs.                               *)
(***************************************************************************)

\* f64, for the values the decoders can produce from runs of digits and
\* dots: the exact decimal n * 10^(-e), normalised so that equal numbers have
\* equal representations.
F64(n, e) == [class |-> "finite", n |-> n, e |-> e]

\* chrono::NaiveDate.
NaiveDate(y, m, d) == [y |-> y, m |-> m, d |-> d]

\* enum CourseTitle { Parsed(String, String), Unparseable(String) }
TitleParsed(name, id) == [tag |-> "Parsed", name |-> name, id |-> id, raw |-> ""]
TitleUnparseable(raw) == [tag |-> "Unparseable", name |-> "", id |-> "", raw |-> raw]

\* enum AssignmentScore
ScoreNotDue == [tag |-> "NotDue", x |-> F64(0, 0), y |-> F64(0, 0), raw |-> ""]
ScoreNotForGrading == [tag |-> "NotForGrading", x |-> F64(0, 0), y |-> F64(0, 0), raw |-> ""]
ScoreNotGraded == [tag |-> "NotGraded", x |-> F64(0, 0), y |-> F64(0, 0), raw |-> ""]
ScoreSeeStandards == [tag |-> "SeeStandards", x |-> F64(0, 0), y |-> F64(0, 0), raw |-> ""]
ScorePercentage(p) == [tag |-> "Percentage", x |-> p, y |-> F64(0, 0), raw |-> ""]
ScoreScore(s, possible) == [tag |-> "Score", x |-> s, y |-> possible, raw |-> ""]
ScoreUnparseable(raw) == [tag |-> "Unparseable", x |-> F64(0, 0), y |-> F64(0, 0), raw |-> raw]

\* enum AssignmentPoints
PointsUngraded(possible) == [tag |-> "Ungraded", x |-> possible, y |-> F64(0, 0), raw |-> ""]
PointsGraded(scored, possible) == [tag |-> "Graded", x |-> scored, y |-> possible, raw |-> ""]
PointsUnparseable(raw) == [tag |-> "Unparseable", x |-> F64(0, 0), y |-> F64(0, 0), raw |-> raw]

\* impl Pairable for Course (the key is the title) and for Assignment (the
\* key is the gradebook id).
unique_key(v) == IF "title" \in DOMAIN v THEN v.title ELSE v.gradebook_id

(***************************************************************************)
(* The pairing engine, src/src/diff.rs lines 9-68.                         *)
(***************************************************************************)

\* HashMap::new, HashMap::insert, HashMap::remove and HashMap::get.
HashMapNew == [k \in {} |-> 0]
HashMapInsert(m, k, v) == [x \in DOMAIN m \cup {k} |-> IF x = k THEN v ELSE m[x]]
\* A remove that leaves the entry in the map.
HashMapRemoveKeepsEntry(m, k) == m
HashMapRemove(m, k) == [x \in DOMAIN m \ {k} |-> m[x]]
HashMapGet(m, k) == IF k \in DOMAIN m THEN Some(m[k]) ELSE None

\* into_hash_map: the fold that inserts every value under its key, in the
\* order of the collection.  The value stored is the reference, i.e. the index.
RECURSIVE FoldIntoHashMap(_, _, _)
FoldIntoHashMap(vals, i, acc) ==
    IF i > Len(vals) THEN acc
    ELSE FoldIntoHashMap(vals, i + 1, HashMapInsert(acc, unique_key(vals[i]), i))

into_hash_map(vals) == FoldIntoHashMap(vals, 1, HashMapNew)

\* A variant of the first fold in which a key stays in the map after it was
\* matched, so that every old value with that key gets the match.
RECURSIVE FoldOldKeepingMatches(_, _, _, _)
FoldOldKeepingMatches(olds, i, map, acc) ==
    IF i > Len(olds) THEN [pairs |-> acc, map |-> map]
    ELSE FoldOldKeepingMatches(olds, i + 1, map,
                               Append(acc, [o |-> Some(i),
                                            n |-> HashMapGet(map, unique_key(olds[i]))]))

\* The first fold of pair_values: every old value, in order, with what
\* new.remove(key) returns.
RECURSIVE FoldOld(_, _, _, _)
FoldOld(olds, i, map, acc) ==
    IF i > Len(olds) THEN [pairs |-> acc, map |-> map]
    ELSE LET k == unique_key(olds[i])
         IN FoldOld(olds, i + 1, HashMapRemove(map, k),
                    Append(acc, [o |-> Some(i), n |-> HashMapGet(map, k)]))

\* The second fold of pair_values: what is left in the map, in the map's
\* iteration order.  order enumerates the keys in that order.
RemainingNew(map, order) ==
    LET keys == SelectSeq(order, LAMBDA k : k \in DOMAIN map)
    IN [j \in 1..Len(keys) |-> [o |-> None, n |-> Some(map[keys[j]])]]

\* pair_values / pair_with.  A pair is [o, n]: Option<&V> into olds and into
\* news.
pair_values(olds, news, order) ==
    LET folded == FoldOld(olds, 1, into_hash_map(news), <<>>)
    IN folded.pairs \o RemainingNew(folded.map, order)

pair_with(olds, news, order) == pair_values(olds, news, order)

\* The keys of a collection, and the orders a map built from it may iterate in.
KeysOf(vals) == {unique_key(vals[i]) : i \in DOMAIN vals}

(***************************************************************************)
(* The changeset builder, src/src/diff.rs lines 70-282.                    *)
(***************************************************************************)

\* macro add_change!: one change record when the field differs.
add_change(variant, field, changes, o, n) ==
    IF o[field] # n[field]
    THEN Append(changes, [tag |-> variant, old |-> o[field], new |-> n[field]])
    ELSE changes

\* macro diff!: add_change! for every listed field, in the order listed.
\* fields is a sequence of <<field, variant>>.
RECURSIVE diff(_, _, _, _)
diff(fields, changes, o, n) ==
    IF fields = <<>> THEN changes
    ELSE diff(Tail(fields), add_change(Head(fields)[2], Head(fields)[1], changes, o, n), o, n)

\* The field list of AssignmentChanges::diff.
AssignmentDiffFields ==
    << <<"date", "DateChange">>,
       <<"due_date", "DueDateChange">>,
       <<"notes", "NotesChange">>,
       <<"points", "PointsChange">>,
       <<"score", "ScoreChange">>,
       <<"score_type", "ScoreTypeChange">>,
       <<"measure", "TitleChange">> >>

\* The field list of CourseChanges::diff.
CourseDiffFields ==
    << <<"period", "PeriodChange">>,
       <<"staff", "StaffChange">>,
       <<"staff_email", "StaffEmailChange">> >>

\* A variant that reports an entry also for two assignments without a
\* difference.
AssignmentChangesDiffAlways(o, n) ==
    Some([old |-> Some(o), new |-> Some(n),
          changes |-> diff(AssignmentDiffFields, <<>>, o, n)])

\* AssignmentChanges::diff
AssignmentChangesDiff(o, n) ==
    LET changes == diff(AssignmentDiffFields, <<>>, o, n)
    IN IF changes = <<>>
       THEN None
       ELSE Some([old |-> Some(o), new |-> Some(n), changes |-> changes])

\* Mark::calculated_grade: the grade the portal displays for the mark.
calculated_grade(mark) == mark.calculated_score_string

\* CourseChanges::diff_overall_grades
diff_overall_grades(oldMark, newMark) ==
    LET old_grade == calculated_grade(oldMark)
        new_grade == calculated_grade(newMark)
    IN IF old_grade # new_grade
       THEN Some([tag |-> "CalculatedGradeChange", old |-> old_grade, new |-> new_grade])
       ELSE None

\* Option<&V>::cloned on a reference into vals.
Cloned(vals, ref) == IF IsSome(ref) THEN Some(vals[ref[1]]) ELSE None

\* The closure folded over the pairs in CourseChanges::diff_assignments.
DiffAssignmentPair(olds, news, pair) ==
    IF IsSome(pair.o) /\ IsSome(pair.n)
    THEN AssignmentChangesDiff(olds[pair.o[1]], news[pair.n[1]])
    ELSE IF IsSome(pair.o) \/ IsSome(pair.n)
    THEN Some([old |-> Cloned(olds, pair.o),
               new |-> Cloned(news, pair.n),
               changes |-> << [tag |-> IF IsNone(pair.o) THEN "Added" ELSE "Removed"] >>])
    ELSE None

RECURSIVE FoldAssignmentPairs(_, _, _, _, _)
FoldAssignmentPairs(olds, news, pairs, i, acc) ==
    IF i > Len(pairs) THEN acc
    ELSE FoldAssignmentPairs(olds, news, pairs, i + 1,
                             acc \o DiffAssignmentPair(olds, news, pairs[i]))

\* CourseChanges::diff_assignments
diff_assignments(oldMark, newMark, order) ==
    LET pairs == pair_with(oldMark.assignments, newMark.assignments, order)
    IN FoldAssignmentPairs(oldMark.assignments, newMark.assignments, pairs, 1, <<>>)

\* A variant of the (Some, Some) arm that compares the last marks of the two
\* courses.
DiffBothCoursesLastMark(c1, c2, order) ==
    LET fieldChanges == diff(CourseDiffFields, <<>>, c1, c2)
        changes == fieldChanges \o diff_overall_grades(c1.marks[Len(c1.marks)],
                                                       c2.marks[Len(c2.marks)])
        assignment_changes == diff_assignments(c1.marks[Len(c1.marks)],
                                               c2.marks[Len(c2.marks)], order)
    IN IF changes = <<>> /\ assignment_changes = <<>>
       THEN None
       ELSE Some([old |-> Some(c1),
                  new |-> Some(c2),
                  assignment_changes |->
                      IF assignment_changes = <<>> THEN None ELSE Some(assignment_changes),
                  changes |-> IF changes = <<>> THEN None ELSE Some(changes)])

\* The (Some, Some) arm of CourseChanges::diff, reached with both courses
\* holding a first mark.
DiffBothCourses(c1, c2, order) ==
    LET fieldChanges == diff(CourseDiffFields, <<>>, c1, c2)
        changes == fieldChanges \o diff_overall_grades(c1.marks[1], c2.marks[1])
        assignment_changes == diff_assignments(c1.marks[1], c2.marks[1], order)
    IN IF changes = <<>> /\ assignment_changes = <<>>
       THEN None
       ELSE Some([old |-> Some(c1),
                  new |-> Some(c2),
                  assignment_changes |->
                      IF assignment_changes = <<>> THEN None ELSE Some(assignment_changes),
                  changes |-> IF changes = <<>> THEN None ELSE Some(changes)])

\* CourseChanges::diff.  o and n are Option<&Course>, passed by value here.
\* Indexing marks[0] of a course without marks panics.
CourseChangesDiff(o, n, order) ==
    IF IsNone(o) /\ IsNone(n) THEN Returned(None)
    ELSE IF IsSome(o) /\ IsSome(n)
    THEN IF o[1].marks = <<>> \/ n[1].marks = <<>>
         THEN Panicked
         ELSE Returned(DiffBothCourses(o[1], n[1], order))
    ELSE Returned(Some([old |-> o,
                        new |-> n,
                        assignment_changes |-> None,
                        changes |-> Some(<< [tag |-> IF IsNone(o) THEN "Added" ELSE "Dropped"] >>)]))

\* The fold of Changeset::diff over the course pairs; a panic ends it.
RECURSIVE FoldCoursePairs(_, _, _, _, _, _)
FoldCoursePairs(olds, news, pairs, i, acc, order) ==
    IF i > Len(pairs) THEN Returned(acc)
    ELSE LET ccs == CourseChangesDiff(Cloned(olds, pairs[i].o), Cloned(news, pairs[i].n), order)
         IN IF ccs.panic THEN Panicked
            ELSE FoldCoursePairs(olds, news, pairs, i + 1, acc \o ccs.val, order)

\* Changeset::diff.  courseOrder and assignmentOrder are the iteration orders
\* of the hash maps built for the courses and for the assignments.
ChangesetDiff(oldBook, newBook, courseOrder, assignmentOrder) ==
    LET pairs == pair_with(oldBook.courses, newBook.courses, courseOrder)
        folded == FoldCoursePairs(oldBook.courses, newBook.courses, pairs, 1, <<>>,
                                  assignmentOrder)
    IN IF folded.panic THEN Panicked
       ELSE IF folded.val = <<>> THEN Returned(None)
       ELSE Returned(Some([old |-> oldBook, new |-> newBook, changes |-> folded.val]))

(***************************************************************************)
(* Values the inputs are drawn from.                                       *)
(***************************************************************************)
AssignmentIds == {"1001", "1002"}
CourseTitles == {TitleParsed("Algebra I", "MATH101"), TitleUnparseable("Lunch")}

BaseAssignment(id) ==
    [_type |-> "Homework",
     gradebook_id |-> id,
     measure |-> "Essay",
     date |-> NaiveDate(2017, 1, 9),
     due_date |-> NaiveDate(2017, 1, 13),
     score |-> ScoreScore(F64(7, 0), F64(1, -1)),
     score_type |-> "Raw Score",
     points |-> PointsGraded(F64(7, 0), F64(1, -1)),
     notes |-> "",
     teacher_id |-> "77",
     student_id |-> "4242",
     has_drop_box |-> FALSE,
     drop_start_date |-> NaiveDate(2017, 1, 9),
     drop_end_date |-> NaiveDate(2017, 1, 13),
     standards |-> <<>>]

BaseMark ==
    [assignments |-> <<>>,
     calculated_score_raw |-> F64(85, 0),
     calculated_score_string |-> "B",
     grade_calculation_summary |-> <<>>,
     mark_name |-> "S1",
     standard_views |-> <<>>]

BaseCourse(title) ==
    [highlight_percentage_cut_off_for_progress_bar |-> 50,
     marks |-> <<BaseMark>>,
     period |-> 1,
     room |-> "101",
     staff |-> "Ada Byron",
     staff_email |-> "ada@example.org",
     title |-> title]

\* For every field, a second value.
AltValue ==
    [_type |-> "Quiz",
     measure |-> "Essay (final)",
     date |-> NaiveDate(2017, 1, 10),
     due_date |-> NaiveDate(2017, 1, 20),
     score |-> ScoreScore(F64(9, 0), F64(1, -1)),
     score_type |-> "Percentage",
     points |-> PointsGraded(F64(9, 0), F64(1, -1)),
     notes |-> "late",
     teacher_id |-> "78",
     period |-> 2,
     room |-> "102",
     staff |-> "Alan Turing",
     staff_email |-> "alan@example.org",
     highlight_percentage_cut_off_for_progress_bar |-> 60,
     calculated_score_string |-> "A",
     calculated_score_raw |-> F64(95, 0),
     mark_name |-> "S2"]

\* v with the fields of the set fs given their second value.
RECURSIVE Vary(_, _)
Vary(v, fs) ==
    IF fs = {} THEN v
    ELSE LET f == CHOOSE x \in fs : TRUE
         IN Vary([v EXCEPT ![f] = AltValue[f]], fs \ {f})

(***************************************************************************)
(* SpecPair: pair_with on two collections of assignments or of courses.    *)
(***************************************************************************)
PairItems ==
    {{Vary(BaseAssignment(id), fs) : id \in AssignmentIds, fs \in {{}, {"measure"}}},
     {Vary(BaseCourse(t), fs) : t \in CourseTitles, fs \in {{}, {"period"}}}}

InitPair ==
    /\ \E items \in PairItems :
          /\ old \in SeqsUpTo(items, MaxPairLen)
          /\ new \in SeqsUpTo(items, MaxPairLen)
    /\ events = <<>>
    /\ cursor = 0
    /\ stack = <<>>
    /\ calls = <<>>
    /\ out = Returned(None)
    /\ pc = "call"

\* old.pair_with(new)
PairWith ==
    /\ pc = "call"
    /\ \E order \in IterationOrders(KeysOf(new)) :
          out' = Returned(pair_with(old, new, order))
    /\ pc' = "done"
    /\ UNCHANGED <<old, new, events, cursor, stack, calls>>

NextPair == PairWith

SpecPair == InitPair /\ [][NextPair]_vars

\* The indices of the pairs of the result that hold old element i / new
\* element j.
PairsOfOld(i) == {p \in DOMAIN out.val : out.val[p].o = Some(i)}
PairsOfNew(j) == {p \in DOMAIN out.val : out.val[p].n = Some(j)}

\* C1: after pair_with(old, new), every element of old and every element of
\* new appears in exactly one pair of the result, also when several elements
\* share a key.
C1_PairingIsPartition ==
    pc = "done" =>
        /\ \A i \in DOMAIN old : Cardinality(PairsOfOld(i)) = 1
        /\ \A j \in DOMAIN new : Cardinality(PairsOfNew(j)) = 1

\* The parts of C2 that the code keeps: matched elements have equal keys and
\* no element is in more than one pair.
MatchedByKey ==
    /\ \A p \in DOMAIN out.val :
          IsSome(out.val[p].o) /\ IsSome(out.val[p].n) =>
              unique_key(old[out.val[p].o[1]]) = unique_key(new[out.val[p].n[1]])
    /\ \A i \in DOMAIN old : Cardinality(PairsOfOld(i)) <= 1
    /\ \A j \in DOMAIN new : Cardinality(PairsOfNew(j)) <= 1

Title1 == TitleParsed("Algebra I", "MATH101")
Title2 == TitleUnparseable("Lunch")

BaseReportingPeriod ==
    [end_date |-> NaiveDate(2017, 1, 27),
     grade_period |-> "S1",
     start_date |-> NaiveDate(2016, 8, 29)]

Gradebook(courses) ==
    [courses |-> courses,
     reporting_period |-> BaseReportingPeriod,
     reporting_periods |-> <<>>]

MarkWith(assignments) == [BaseMark EXCEPT !.assignments = assignments]
CourseWith(title, marks) == [BaseCourse(title) EXCEPT !.marks = marks]

\* Family 1: the courses of whole books.
BookCourses ==
    {BaseCourse(Title1),
     Vary(BaseCourse(Title1), {"period"}),
     CourseWith(Title1, <<>>),
     BaseCourse(Title2),
     CourseWith(Title2, <<MarkWith(<<BaseAssignment("1001")>>)>>),
     CourseWith(Title2, <<MarkWith(<<Vary(BaseAssignment("1001"), {"score"})>>)>>)}

InitBooks ==
    /\ old \in {Gradebook(cs) : cs \in SeqsUpTo(BookCourses, MaxCourses)}
    /\ new \in {Gradebook(cs) : cs \in SeqsUpTo(BookCourses, MaxCourses)}

\* Family 2: at most one course on each side.
CourseMarks ==
    {BaseMark,
     Vary(BaseMark, {"calculated_score_string"}),
     MarkWith(<<BaseAssignment("1001")>>)}

OldCourses ==
    {CourseWith(t, ms) : t \in CourseTitles, ms \in SeqsUpTo(CourseMarks, MaxMarks)}

NewCourses ==
    {Vary(c, fs) : c \in OldCourses,
                   fs \in {{}, {"period"}, {"staff"}, {"staff_email"}, {"room"},
                           {"period", "staff", "staff_email", "room",
                            "highlight_percentage_cut_off_for_progress_bar"}}}

InitCourses ==
    /\ old \in {Gradebook(cs) : cs \in SeqsUpTo(OldCourses, 1)}
    /\ new \in {Gradebook(cs) : cs \in SeqsUpTo(NewCourses, 1)}

\* Family 3: one course with one mark on each side.
OldAssignments ==
    {BaseAssignment("1001"),
     Vary(BaseAssignment("1001"), {"notes", "points"}),
     BaseAssignment("1002")}

NewAssignments ==
    {Vary(BaseAssignment("1001"), fs) :
        fs \in {{}, {"date"}, {"due_date"}, {"notes"}, {"points"}, {"score"},
                {"score_type"}, {"measure"}, {"_type"}, {"teacher_id"}}}
    \cup {BaseAssignment("1002"), Vary(BaseAssignment("1002"), {"score", "points"})}

InitAssignments ==
    /\ old \in {Gradebook(<<CourseWith(Title1, <<MarkWith(as)>>)>>) :
                   as \in SeqsUpTo(OldAssignments, MaxAssignments)}
    /\ new \in {Gradebook(<<CourseWith(Title1, <<MarkWith(as)>>)>>) :
                   as \in SeqsUpTo(NewAssignments, MaxAssignments)}

Init ==
    /\ InitBooks \/ InitCourses \/ InitAssignments
    /\ events = <<>>
    /\ cursor = 0
    /\ stack = <<>>
    /\ calls = <<>>
    /\ out = Returned(None)
    /\ pc = "call"

\* The gradebook ids of the assignments that Changeset::diff may put into a
\* hash map: those of the first mark of every course of book.
AssignmentKeys(book) ==
    UNION {KeysOf(book.courses[c].marks[1].assignments) :
              c \in {d \in DOMAIN book.courses : book.courses[d].marks # <<>>}}

\* Changeset::diff(&old, &new)
Diff ==
    /\ pc = "call"
    /\ \E courseOrder \in IterationOrders(KeysOf(new.courses)),
          assignmentOrder \in IterationOrders(AssignmentKeys(new)) :
          out' = ChangesetDiff(old, new, courseOrder, assignmentOrder)
    /\ pc' = "done"
    /\ UNCHANGED <<old, new, events, cursor, stack, calls>>

Next == Diff

Spec == Init /\ [][Next]_vars

(***************************************************************************)
(* Properties of Changeset::diff.                                          *)
(***************************************************************************)

\* The course entries of the changeset returned (none when the call returned
\* None or did not return).
Changes == IF out.panic \/ IsNone(out.val) THEN <<>> ELSE out.val[1].changes

\* A change list (an Option<Vec<..>> or a Vec<..>) that consists of the one
\* change tag.
IsOnly(changes, tag) == Len(changes) = 1 /\ changes[1].tag = tag
IsSomeOnly(changes, tag) == IsSome(changes) /\ IsOnly(changes[1], tag)

\* The changes of tag in a change list.
ChangesTagged(changes, tag) == {k \in DOMAIN changes : changes[k].tag = tag}

\* The number of positions of vals that hold v.
Occurrences(vals, v) == Cardinality({k \in DOMAIN vals : vals[k] = v})

\* The titles of the courses of a book.
Titles(book) == KeysOf(book.courses)

\* The entries that report the old course c as Dropped, and the new course
\* c as Added, and nothing else about it.
DroppedEntries(c) ==
    {k \in DOMAIN Changes :
        /\ Changes[k].old = Some(c) /\ IsNone(Changes[k].new)
        /\ IsSomeOnly(Changes[k].changes, "Dropped")
        /\ IsNone(Changes[k].assignment_changes)}
AddedEntries(c) ==
    {k \in DOMAIN Changes :
        /\ IsNone(Changes[k].old) /\ Changes[k].new = Some(c)
        /\ IsSomeOnly(Changes[k].changes, "Added")
        /\ IsNone(Changes[k].assignment_changes)}

\* The entries of the changeset about the old course c1 and the new course c2.
EntriesOf(c1, c2) ==
    {k \in DOMAIN Changes : Changes[k].old = Some(c1) /\ Changes[k].new = Some(c2)}

\* The pairs of an old and a new course with the same title.
SameTitle ==
    {ij \in (DOMAIN old.courses) \X (DOMAIN new.courses) :
        old.courses[ij[1]].title = new.courses[ij[2]].title}

\* C3: diffing a gradebook against itself returns None.
C3_SelfDiffIsNone ==
    pc = "done" /\ old = new => out = Returned(None)

\* C4: Changeset::diff returns (None or Some changeset) for every pair of
\* gradebooks, also when a course has an empty list of marks: it never fails.
C4_DiffNeverFails ==
    pc = "done" => ~out.panic

\* The assignments a course is diffed by.
AssignmentsOf(course) ==
    IF course.marks = <<>> THEN <<>> ELSE course.marks[1].assignments

AssignmentsDiffer(a1, a2) ==
    \E f \in {"date", "due_date", "notes", "points", "score", "score_type", "measure"} :
        a1[f] # a2[f]

AssignmentPairDiffers(c1, c2, pair) ==
    \/ IsNone(pair.o)
    \/ IsNone(pair.n)
    \/ AssignmentsDiffer(AssignmentsOf(c1)[pair.o[1]], AssignmentsOf(c2)[pair.n[1]])

\* The assignment pairs of two courses that have a difference, in the order
\* of the pairing.
DifferingAssignmentPairs(c1, c2, order) ==
    SelectSeq(pair_with(AssignmentsOf(c1), AssignmentsOf(c2), order),
              LAMBDA pair : AssignmentPairDiffers(c1, c2, pair))

CourseFieldsDiffer(c1, c2) ==
    \/ c1.period # c2.period
    \/ c1.staff # c2.staff
    \/ c1.staff_email # c2.staff_email
    \/ calculated_grade(c1.marks[1]) # calculated_grade(c2.marks[1])

CoursePairDiffers(pair) ==
    \/ IsNone(pair.o)
    \/ IsNone(pair.n)
    \/ CourseFieldsDiffer(old.courses[pair.o[1]], new.courses[pair.n[1]])
    \/ \E order \in IterationOrders(KeysOf(AssignmentsOf(new.courses[pair.n[1]]))) :
          DifferingAssignmentPairs(old.courses[pair.o[1]], new.courses[pair.n[1]], order) # <<>>

\* The entries of assignment_changes are exactly the differing assignment
\* pairs of the two courses, for one iteration order of the map.
ListsDifferingAssignments(entry, c1, c2) ==
    \E order \in IterationOrders(KeysOf(AssignmentsOf(c2))) :
        LET differing == DifferingAssignmentPairs(c1, c2, order)
            listed == IF IsNone(entry.assignment_changes) THEN <<>>
                      ELSE entry.assignment_changes[1]
        IN  /\ Len(listed) = Len(differing)
            /\ \A k \in DOMAIN listed :
                  /\ listed[k].old = Cloned(AssignmentsOf(c1), differing[k].o)
                  /\ listed[k].new = Cloned(AssignmentsOf(c2), differing[k].n)

\* C6: the result is None exactly when no course pair has a difference;
\* otherwise the changeset lists exactly the course pairs that have one and,
\* within a course, exactly the assignment pairs that have one.
C6_ListsExactlyTheDifferences ==
    pc = "done" =>
        /\ ~out.panic
        /\ \E order \in IterationOrders(Titles(new)) :
              LET differing == SelectSeq(pair_with(old.courses, new.courses, order),
                                         CoursePairDiffers)
              IN  /\ IsNone(out.val) <=> differing = <<>>
                  /\ Len(Changes) = Len(differing)
                  /\ \A k \in DOMAIN Changes :
                        /\ Changes[k].old = Cloned(old.courses, differing[k].o)
                        /\ Changes[k].new = Cloned(new.courses, differing[k].n)
                        /\ IsSome(differing[k].o) /\ IsSome(differing[k].n) =>
                              ListsDifferingAssignments(Changes[k],
                                                        old.courses[differing[k].o[1]],
                                                        new.courses[differing[k].n[1]])

\* The number of entries about a course value that occurs several times in a
\* list is accepted both as 1 and as the number of its occurrences.
OncePerCourse(entries, vals, v) == Cardinality(entries) \in {1, Occurrences(vals, v)}

\* C7: a course whose title is in old and not in new appears in the
\* changeset exactly once, as Dropped and nothing else; one whose title is in
\* new and not in old appears exactly once, as Added and nothing else.
C7_DroppedAndAddedOnce ==
    pc = "done" =>
        /\ \A i \in DOMAIN old.courses :
              LET c == old.courses[i]
              IN c.title \notin Titles(new) =>
                    /\ OncePerCourse(DroppedEntries(c), old.courses, c)
                    /\ \A k \in DOMAIN Changes :
                          Changes[k].old = Some(c) => k \in DroppedEntries(c)
        /\ \A j \in DOMAIN new.courses :
              LET c == new.courses[j]
              IN c.title \notin Titles(old) =>
                    /\ OncePerCourse(AddedEntries(c), new.courses, c)
                    /\ \A k \in DOMAIN Changes :
                          Changes[k].new = Some(c) => k \in AddedEntries(c)

\* The entries about c1 and c2 hold a change of tag that carries the old and
\* the new value of field.
ReportsChange(c1, c2, tag, oldValue, newValue) ==
    \E k \in EntriesOf(c1, c2) :
        /\ IsSome(Changes[k].changes)
        /\ \E x \in ChangesTagged(Changes[k].changes[1], tag) :
              /\ Changes[k].changes[1][x].old = oldValue
              /\ Changes[k].changes[1][x].new = newValue

\* The entries about c1 and c2 hold some change of tag.
ReportsTag(c1, c2, tag) ==
    \E k \in EntriesOf(c1, c2) :
        /\ IsSome(Changes[k].changes)
        /\ ChangesTagged(Changes[k].changes[1], tag) # {}

\* The calculated overall grade of a course.
GradeOf(course) ==
    IF course.marks = <<>> THEN None ELSE Some(calculated_grade(course.marks[1]))

\* C8: for a course present in both snapshots the change list holds a
\* PeriodChange, StaffChange, StaffEmailChange and CalculatedGradeChange
\* exactly when the period, staff name, staff email and calculated grade
\* differ, each with the old and the new value.
C8_CourseFieldChanges ==
    pc = "done" =>
        \A ij \in SameTitle :
            LET c1 == old.courses[ij[1]]
                c2 == new.courses[ij[2]]
            IN  /\ \A fv \in {<<"period", "PeriodChange">>, <<"staff", "StaffChange">>,
                              <<"staff_email", "StaffEmailChange">>} :
                      /\ c1[fv[1]] # c2[fv[1]] =>
                            ReportsChange(c1, c2, fv[2], c1[fv[1]], c2[fv[1]])
                      /\ c1[fv[1]] = c2[fv[1]] => ~ReportsTag(c1, c2, fv[2])
                /\ GradeOf(c1) # GradeOf(c2) =>
                      /\ IsSome(GradeOf(c1)) /\ IsSome(GradeOf(c2))
                      /\ ReportsChange(c1, c2, "CalculatedGradeChange",
                                       GradeOf(c1)[1], GradeOf(c2)[1])
                /\ GradeOf(c1) = GradeOf(c2) => ~ReportsTag(c1, c2, "CalculatedGradeChange")

\* The assignment entries listed for the old course c1 and the new course c2:
\* <<k, x>> stands for entry x of the assignment changes of course entry k.
AssignmentEntries(c1, c2) ==
    {kx \in (DOMAIN Changes) \X (1..(2 * MaxAssignments + 2)) :
        /\ kx[1] \in EntriesOf(c1, c2)
        /\ IsSome(Changes[kx[1]].assignment_changes)
        /\ kx[2] \in DOMAIN Changes[kx[1]].assignment_changes[1]}
AssignmentEntry(kx) == Changes[kx[1]].assignment_changes[1][kx[2]]

\* C9: for a course present in both snapshots, an assignment whose id is only
\* in the old list yields one entry with the single change Removed, one whose
\* id is only in the new list yields one entry with the single change Added,
\* and one whose id is in both yields an entry that holds a DateChange,
\* DueDateChange, NotesChange, PointsChange, ScoreChange, ScoreTypeChange or
\* TitleChange exactly for each of those fields that differs, and no entry
\* when none differs.
C9_AssignmentChanges ==
    pc = "done" =>
        \A ij \in SameTitle :
            LET c1 == old.courses[ij[1]]
                c2 == new.courses[ij[2]]
                olds == AssignmentsOf(c1)
                news == AssignmentsOf(c2)
                entries == AssignmentEntries(c1, c2)
            IN  /\ \A i \in DOMAIN olds :
                      olds[i].gradebook_id \notin KeysOf(news) =>
                          /\ OncePerCourse({kx \in entries :
                                               /\ AssignmentEntry(kx).old = Some(olds[i])
                                               /\ IsNone(AssignmentEntry(kx).new)
                                               /\ IsOnly(AssignmentEntry(kx).changes, "Removed")},
                                           olds, olds[i])
                          /\ \A kx \in entries :
                                AssignmentEntry(kx).old = Some(olds[i]) =>
                                    IsNone(AssignmentEntry(kx).new)
                /\ \A j \in DOMAIN news :
                      news[j].gradebook_id \notin KeysOf(olds) =>
                          /\ OncePerCourse({kx \in entries :
                                               /\ IsNone(AssignmentEntry(kx).old)
                                               /\ AssignmentEntry(kx).new = Some(news[j])
                                               /\ IsOnly(AssignmentEntry(kx).changes, "Added")},
                                           news, news[j])
                          /\ \A kx \in entries :
                                AssignmentEntry(kx).new = Some(news[j]) =>
                                    IsNone(AssignmentEntry(kx).old)
                /\ \A i \in DOMAIN olds, j \in DOMAIN news :
                      olds[i].gradebook_id = news[j].gradebook_id =>
                          LET about == {kx \in entries :
                                           /\ AssignmentEntry(kx).old = Some(olds[i])
                                           /\ AssignmentEntry(kx).new = Some(news[j])}
                          IN  /\ AssignmentsDiffer(olds[i], news[j]) <=> about # {}
                              /\ \A kx \in about :
                                    \A k \in DOMAIN AssignmentDiffFields :
                                        LET field == AssignmentDiffFields[k][1]
                                            tagged == ChangesTagged(AssignmentEntry(kx).changes,
                                                                    AssignmentDiffFields[k][2])
                                        IN  /\ olds[i][field] # news[j][field] <=> tagged # {}
                                            /\ \A x \in tagged :
                                                  /\ AssignmentEntry(kx).changes[x].old = olds[i][field]
                                                  /\ AssignmentEntry(kx).changes[x].new = news[j][field]
                              /\ \A kx \in about :
                                    \A x \in DOMAIN AssignmentEntry(kx).changes :
                                        AssignmentEntry(kx).changes[x].tag \notin {"Added", "Removed"}

\* The course entry k reports a course as Added or Dropped.
ReportsAddedOrDropped(k) ==
    \/ IsNone(Changes[k].old)
    \/ IsNone(Changes[k].new)
    \/ /\ IsSome(Changes[k].changes)
       /\ \E x \in DOMAIN Changes[k].changes[1] :
             Changes[k].changes[1][x].tag \in {"Added", "Dropped"}

\* C10: courses are matched by title only.  An old and a new course with
\* equal titles are the same course, whatever their other fields are: the
\* diff returns, and neither is reported Added or Dropped.  A course whose
\* title is not in the other snapshot is reported as Dropped, or as Added,
\* without field-level changes.
C10_CoursesMatchedByTitle ==
    pc = "done" =>
        /\ \A ij \in SameTitle :
              /\ ~out.panic
              /\ \A k \in DOMAIN Changes :
                    \/ Changes[k].old = Some(old.courses[ij[1]])
                    \/ Changes[k].new = Some(new.courses[ij[2]])
                    => ~ReportsAddedOrDropped(k)
        /\ \A i \in DOMAIN old.courses :
              old.courses[i].title \notin Titles(new) =>
                  \E k \in DOMAIN Changes :
                      Changes[k].old = Some(old.courses[i]) /\ k \in DroppedEntries(old.courses[i])
        /\ \A j \in DOMAIN new.courses :
              new.courses[j].title \notin Titles(old) =>
                  \E k \in DOMAIN Changes :
                      Changes[k].new = Some(new.courses[j]) /\ k \in AddedEntries(new.courses[j])

(***************************************************************************)
(* Text.  A string is a sequence of characters; a character is a string of *)
(* length one.  The parsers below are the library routines the decoders    *)
(* call on attribute values, each computed as the library computes it.     *)
(***************************************************************************)
CharAt(s, i) == SubSeq(s, i, i)
From(s, i) == SubSeq(s, i, Len(s))

Digits == {"0", "1", "2", "3", "4", "5", "6", "7", "8", "9"}
DigitValue(c) ==
    CASE c = "0" -> 0 [] c = "1" -> 1 [] c = "2" -> 2 [] c = "3" -> 3
      [] c = "4" -> 4 [] c = "5" -> 5 [] c = "6" -> 6 [] c = "7" -> 7
      [] c = "8" -> 8 [] c = "9" -> 9

\* The characters the patterns' \s and str::trim treat as white space.
Whitespace == {" ", "\t", "\n", "\r", "\f"}

\* The value of a string of decimal digits, most significant first.
RECURSIVE DecimalValue(_, _)
DecimalValue(s, acc) ==
    IF s = "" THEN acc
    ELSE DecimalValue(Tail(s), 10 * acc + DigitValue(Head(s)))

\* The end of the longest run of characters of the set class that starts at
\* position i of s: i - 1 when the run is empty.
RECURSIVE RunEnd(_, _, _)
RunEnd(s, i, class) ==
    IF i <= Len(s) /\ CharAt(s, i) \in class THEN RunEnd(s, i + 1, class) ELSE i - 1

eat_digits(s, i) == RunEnd(s, i, Digits)
SkipWhitespace(s, i) == RunEnd(s, i, Whitespace) + 1

StartsWithAt(s, i, prefix) ==
    /\ i + Len(prefix) - 1 <= Len(s)
    /\ SubSeq(s, i, i + Len(prefix) - 1) = prefix

Contains(s, needle) == \E i \in 1..(Len(s) + 1) : StartsWithAt(s, i, needle)

\* str::trim
RECURSIVE trim_right_matches(_, _)
trim_right_matches(s, class) ==
    IF s # "" /\ CharAt(s, Len(s)) \in class
    THEN trim_right_matches(SubSeq(s, 1, Len(s) - 1), class)
    ELSE s

trim(s) == trim_right_matches(From(s, SkipWhitespace(s, 1)), Whitespace)

(***************************************************************************)
(* i8::from_str_radix(s, 10): an optional sign, then one or more digits,   *)
(* and the value must fit in 8 bits.                                       *)
(***************************************************************************)
I8Bits == 8
I8Min == 0 - 2 ^ (I8Bits - 1)
I8Max == 2 ^ (I8Bits - 1) - 1

ParseI8(s) ==
    LET signed == s # "" /\ CharAt(s, 1) \in {"+", "-"}
        digits == IF signed THEN Tail(s) ELSE s
        magnitude == DecimalValue(digits, 0)
        value == IF signed /\ CharAt(s, 1) = "-" THEN 0 - magnitude ELSE magnitude
    IN IF digits = "" \/ eat_digits(digits, 1) # Len(digits) THEN None
       ELSE IF value < I8Min \/ value > I8Max THEN None
       ELSE Some(value)

(***************************************************************************)
(* f64::from_str.  A finite value is kept as the exact decimal n * 10^(-e) *)
(* in lowest terms, which is the value f64 holds for inputs of at most 15  *)
(* significant digits.                                                     *)
(***************************************************************************)
F64Infinity(sign) == [class |-> "inf", n |-> sign, e |-> 0]
F64NaN == [class |-> "NaN", n |-> 0, e |-> 0]

RECURSIVE Normalised(_, _)
Normalised(n, e) ==
    IF n = 0 THEN F64(0, 0)
    ELSE IF n % 10 = 0 THEN Normalised(n \div 10, e - 1)
    ELSE F64(n, e)

\* dec2flt's parse_exp: an optional sign and one or more digits up to the end.
ParseExponent(s) ==
    LET signed == s # "" /\ CharAt(s, 1) \in {"+", "-"}
        digits == IF signed THEN Tail(s) ELSE s
        magnitude == DecimalValue(digits, 0)
    IN IF digits = "" \/ eat_digits(digits, 1) # Len(digits) THEN None
       ELSE Some(IF signed /\ CharAt(s, 1) = "-" THEN 0 - magnitude ELSE magnitude)

\* dec2flt's parse_decimal on the text after the sign: <<integral digits,
\* fractional digits, exponent>> or None.
ParseDecimal(s) ==
    LET i == eat_digits(s, 1)
        integral == SubSeq(s, 1, i)
        f == eat_digits(s, i + 2)
        fractional == SubSeq(s, i + 2, f)
        WithExponent(int, frac, rest) ==
            LET x == ParseExponent(rest)
            IN IF IsNone(x) THEN None ELSE Some(<<int, frac, x[1]>>)
    IN IF s = "" THEN None
       ELSE IF i = Len(s) THEN Some(<<integral, "", 0>>)
       ELSE IF CharAt(s, i + 1) \in {"e", "E"}
            THEN IF integral = "" THEN None
                 ELSE WithExponent(integral, "", From(s, i + 2))
       ELSE IF CharAt(s, i + 1) = "."
            THEN IF integral = "" /\ fractional = "" /\ f = Len(s) THEN None
                 ELSE IF f = Len(s) THEN Some(<<integral, fractional, 0>>)
                 ELSE IF CharAt(s, f + 1) \in {"e", "E"}
                      THEN WithExponent(integral, fractional, From(s, f + 2))
                 ELSE None
       ELSE None

ParseF64(s) ==
    LET signed == s # "" /\ CharAt(s, 1) \in {"+", "-"}
        sign == IF signed /\ CharAt(s, 1) = "-" THEN -1 ELSE 1
        rest == IF signed THEN Tail(s) ELSE s
        d == ParseDecimal(rest)
    IN IF s = "" THEN None
       ELSE IF IsSome(d)
            THEN Some(Normalised(sign * DecimalValue(d[1][1] \o d[1][2], 0),
                                 Len(d[1][2]) - d[1][3]))
       ELSE IF rest = "inf" THEN Some(F64Infinity(sign))
       ELSE IF rest = "NaN" THEN Some(F64NaN)
       ELSE None

\* bool::from_str
ParseBool(s) ==
    IF s = "true" THEN Some(TRUE) ELSE IF s = "false" THEN Some(FALSE) ELSE None

(***************************************************************************)
(* parse_date: NaiveDate::parse_from_str(date, "%-m/%-d/%Y").  Each number *)
(* may be preceded by white space; month and day take one or two digits,   *)
(* the year one to four, or any number of digits after a sign; nothing may *)
(* follow the year; the date must exist.                                   *)
(***************************************************************************)
IsLeapYear(y) == (y % 4 = 0 /\ y % 100 # 0) \/ y % 400 = 0

DaysInMonth(y, m) ==
    IF m = 2 THEN (IF IsLeapYear(y) THEN 29 ELSE 28)
    ELSE IF m \in {4, 6, 9, 11} THEN 30 ELSE 31

\* chrono's scan::number(s, 1, width) after trim_left, from position i:
\* <<value, position after it>> or None.
ScanNumber(s, i, width) ==
    LET start == SkipWhitespace(s, i)
        run == eat_digits(s, start)
        stop == IF run - start + 1 > width THEN start + width - 1 ELSE run
    IN IF stop < start THEN None
       ELSE Some(<<DecimalValue(SubSeq(s, start, stop), 0), stop + 1>>)

\* The same for a signed field such as %Y.
ScanSigned(s, i, width) ==
    LET start == SkipWhitespace(s, i)
        signed == start <= Len(s) /\ CharAt(s, start) \in {"+", "-"}
        run == eat_digits(s, start + 1)
    IN IF ~signed THEN ScanNumber(s, start, width)
       ELSE IF run < start + 1 THEN None
       ELSE LET magnitude == DecimalValue(SubSeq(s, start + 1, run), 0)
            IN Some(<<IF CharAt(s, start) = "-" THEN 0 - magnitude ELSE magnitude,
                      run + 1>>)

parse_date(date) ==
    LET m == ScanNumber(date, 1, 2)
        d == ScanNumber(date, m[1][2] + 1, 2)
        y == ScanSigned(date, d[1][2] + 1, 4)
    IN IF IsNone(m) \/ ~StartsWithAt(date, m[1][2], "/") THEN None
       ELSE IF IsNone(d) \/ ~StartsWithAt(date, d[1][2], "/") THEN None
       ELSE IF IsNone(y) \/ y[1][2] # Len(date) + 1 THEN None
       ELSE IF m[1][1] \notin 1..12 THEN None
       ELSE IF d[1][1] \notin 1..DaysInMonth(y[1][1], m[1][1]) THEN None
       ELSE Some(NaiveDate(y[1][1], m[1][1], d[1][1]))

(***************************************************************************)
(* The small grammars of src/src/gradebook.rs.  A pattern is searched as   *)
(* the regex crate searches it: the match starts at the leftmost position  *)
(* where one exists, [\d\.]+ and \s* take the longest run, (.+) takes the  *)
(* longest text and (.+?) the shortest that let the rest match.  A parse   *)
(* that unwraps a failed f64::from_str panics.                             *)
(***************************************************************************)
NumberChars == Digits \cup {"."}

Least(S) == CHOOSE x \in S : \A y \in S : x <= y
Greatest(S) == CHOOSE x \in S : \A y \in S : x >= y

\* \s* followed by the literal, from position i: the position after the
\* literal, or 0 when the literal does not follow.
SkipLiteral(s, i, literal) ==
    LET at == SkipWhitespace(s, i)
    IN IF i # 0 /\ StartsWithAt(s, at, literal) THEN at + Len(literal) ELSE 0

\* ([\d\.]+) from position i: <<first, last>> of the group, or None.
NumberGroup(s, i) ==
    LET last == RunEnd(s, i, NumberChars)
    IN IF i = 0 \/ last < i THEN None ELSE Some(<<i, last>>)

GroupText(s, group) == SubSeq(s, group[1][1], group[1][2])

\* ([\d\.]+)\s*out\s*of\s*([\d\.]+) matched at position i: the two groups.
ScoreCaptures(s, i) ==
    LET first == NumberGroup(s, i)
        second == NumberGroup(s, SkipWhitespace(s,
                      SkipLiteral(s, SkipLiteral(s, first[1][2] + 1, "out"), "of")))
    IN IF IsNone(first) THEN None
       ELSE IF SkipLiteral(s, SkipLiteral(s, first[1][2] + 1, "out"), "of") = 0 THEN None
       ELSE IF IsNone(second) THEN None
       ELSE Some(<<GroupText(s, first), GroupText(s, second)>>)

\* ^([\d\.]+)\s*(?:\(\))?$ : the group.
PercentageCaptures(s) ==
    LET first == NumberGroup(s, 1)
        rest == SkipWhitespace(s, first[1][2] + 1)
    IN IF IsNone(first) THEN None
       ELSE IF rest = Len(s) + 1 \/ (StartsWithAt(s, rest, "()") /\ rest + 2 = Len(s) + 1)
            THEN Some(<<GroupText(s, first)>>)
       ELSE None

\* ([\d\.]+)\s*Points\s*Possible matched at position i: the group.
PossibleCaptures(s, i) ==
    LET first == NumberGroup(s, i)
    IN IF IsNone(first) THEN None
       ELSE IF SkipLiteral(s, SkipLiteral(s, first[1][2] + 1, "Points"), "Possible") = 0
            THEN None
       ELSE Some(<<GroupText(s, first)>>)

\* ([\d\.]+)\s*/\s*([\d\.]+) matched at position i: the two groups.
GradedCaptures(s, i) ==
    LET first == NumberGroup(s, i)
        second == NumberGroup(s, SkipWhitespace(s, SkipLiteral(s, first[1][2] + 1, "/")))
    IN IF IsNone(first) THEN None
       ELSE IF SkipLiteral(s, first[1][2] + 1, "/") = 0 THEN None
       ELSE IF IsNone(second) THEN None
       ELSE Some(<<GroupText(s, first), GroupText(s, second)>>)

\* The one element of a set of one element: The({e : x \in {v}}) is e with
\* v computed once and named x.
The(S) == CHOOSE x \in S : TRUE

\* The groups of the named unanchored pattern matched at position i.
CapturesAt(pattern, s, i) ==
    CASE pattern = "score" -> ScoreCaptures(s, i)
      [] pattern = "possible" -> PossibleCaptures(s, i)
      [] pattern = "graded" -> GradedCaptures(s, i)

\* Regex::captures: the groups of the leftmost match.
captures(pattern, s) ==
    LET starts == {i \in 1..Len(s) : IsSome(CapturesAt(pattern, s, i))}
    IN IF starts = {} THEN None ELSE CapturesAt(pattern, s, Least(starts))

\* The value a parse builds from the numbers of its groups.
Construct(variant, v) ==
    CASE variant = "Score" -> ScoreScore(v[1], v[2])
      [] variant = "Percentage" -> ScorePercentage(v[1])
      [] variant = "Ungraded" -> PointsUngraded(v[1])
      [] variant = "Graded" -> PointsGraded(v[1], v[2])

\* f64::from_str(..).unwrap() on each captured group, then the constructor.
Unwrapped(variant, groups) ==
    The({IF \E g \in DOMAIN parsed : IsNone(parsed[g]) THEN Panicked
         ELSE Returned(Construct(variant, [g \in DOMAIN parsed |-> parsed[g][1]])) :
            parsed \in {[g \in DOMAIN groups |-> ParseF64(groups[g])]}})

AssignmentScoreParse(score) ==
    CASE score = "Not Due" -> Returned(ScoreNotDue)
      [] score = "" -> Returned(ScoreNotForGrading)
      [] score = "Not Graded" -> Returned(ScoreNotGraded)
      [] score = "See Standards" -> Returned(ScoreSeeStandards)
      [] OTHER ->
           The({IF IsSome(cs) THEN Unwrapped("Score", cs[1])
                ELSE IF IsSome(pct) THEN Unwrapped("Percentage", pct[1])
                ELSE Returned(ScoreUnparseable(score)) :
                   cs \in {captures("score", score)},
                   pct \in {PercentageCaptures(score)}})

AssignmentPointsParse(points) ==
    IF Contains(points, "Points Possible")
    THEN The({IF IsSome(cs) THEN Unwrapped("Ungraded", cs[1])
              ELSE Returned(PointsUnparseable(points)) :
                 cs \in {captures("possible", points)}})
    ELSE The({IF IsSome(cs) THEN Unwrapped("Graded", cs[1])
              ELSE Returned(PointsUnparseable(points)) :
                 cs \in {captures("graded", points)}})

WeightPercentage(p) == [tag |-> "Percentage", x |-> p, raw |-> ""]
WeightUnparseable(raw) == [tag |-> "Unparseable", x |-> F64(0, 0), raw |-> raw]

AssignmentGradeCalcWeightParse(text) ==
    LET weight == trim(text)
        w == ParseF64(trim_right_matches(weight, {"%"}))
    IN IF weight # "" /\ CharAt(weight, Len(weight)) = "%"
       THEN IF IsSome(w) THEN WeightPercentage(w[1]) ELSE WeightUnparseable(weight)
       ELSE WeightUnparseable(weight)

\* (.+)\s+\((.+?)\) with group 1 = s[i..e]: the position of the closing
\* parenthesis, or 0 when the pattern does not match that way.
TitleClose(s, i, e) ==
    LET open == SkipWhitespace(s, e + 1)
        closes == {q \in (open + 2)..Len(s) :
                      /\ CharAt(s, q) = ")"
                      /\ \A k \in (open + 1)..(q - 1) : CharAt(s, k) # "\n"}
    IN IF /\ e >= i
          /\ \A k \in i..e : CharAt(s, k) # "\n"
          /\ open > e + 1
          /\ StartsWithAt(s, open, "(")
          /\ closes # {}
       THEN Least(closes) ELSE 0

CourseTitleParse(title) ==
    LET Ends(i) == {e \in i..Len(title) : TitleClose(title, i, e) # 0}
        starts == {i \in 1..Len(title) : Ends(i) # {}}
        i == Least(starts)
        e == Greatest(Ends(i))
    IN IF starts = {} THEN TitleUnparseable(title)
       ELSE TitleParsed(SubSeq(title, i, e),
                        SubSeq(title, SkipWhitespace(title, e + 1) + 1,
                               TitleClose(title, i, e) - 1))

(***************************************************************************)
(* The event cursor.  The items of the iterator are the tokenizer's events *)
(* and, when the tokenizer fails, one "Err" item.  The cursor is the       *)
(* number of items pulled so far: next() on a cursor at pos yields item    *)
(* pos + 1 and leaves the cursor at pos + 1, and yields nothing when pos   *)
(* is the length of the sequence.                                          *)
(***************************************************************************)
Attribute(name, value) == [name |-> name, value |-> value]

Event(kind, name, attributes) == [kind |-> kind, name |-> name, attributes |-> attributes]
StartElement(name, attributes) == Event("StartElement", name, attributes)
EndElement(name) == Event("EndElement", name, <<>>)
WhitespaceEvent == Event("Whitespace", "", <<>>)
Characters == Event("Characters", "", <<>>)
StartDocument == Event("StartDocument", "", <<>>)
EndDocument == Event("EndDocument", "", <<>>)
ReaderError == Event("Err", "", <<>>)
NoEvent == Event("", "", <<>>)

\* decoder.rs: DecodingError
DecodingError(kind, attr, event) == [kind |-> kind, attr |-> attr, event |-> event]
NoError == DecodingError("", "", NoEvent)
\* A variant in which an absent attribute is reported as a failure that
\* does not name it.
AbsentReportsGenericFailure(attr) == DecodingError("EventError", "", NoEvent)
MissingAttribute(attr) == DecodingError("MissingAttribute", attr, NoEvent)
\* A variant in which the arm of an exhausted iterator reports the error of
\* the tokenizer.
ExhaustedReportsEventError == DecodingError("EventError", "", NoEvent)
UnexpectedEnd == DecodingError("UnexpectedEnd", "", NoEvent)
EventError == DecodingError("EventError", "", NoEvent)
UnexpectedEvent(event) == DecodingError("UnexpectedEvent", "", event)

\* DecoderResult<T>, and the third way a call can end.
Ok(v) == [tag |-> "Ok", val |-> Some(v), err |-> NoError]
Err(e) == [tag |-> "Err", val |-> None, err |-> e]
Panic == [tag |-> "Panic", val |-> None, err |-> NoError]

\* A variant in which the first value of a name stays in the map.
RECURSIVE FoldAttributesFirstWins(_, _, _)
FoldAttributesFirstWins(attributes, i, acc) ==
    IF i > Len(attributes) THEN acc
    ELSE FoldAttributesFirstWins(attributes, i + 1,
                                 IF attributes[i].name \in DOMAIN acc THEN acc
                                 ELSE HashMapInsert(acc, attributes[i].name,
                                                    attributes[i].value))

RECURSIVE FoldAttributes(_, _, _)
FoldAttributes(attributes, i, acc) ==
    IF i > Len(attributes) THEN acc
    ELSE FoldAttributes(attributes, i + 1,
                        HashMapInsert(acc, attributes[i].name, attributes[i].value))

attributes_vec_to_map(attributes) == FoldAttributes(attributes, 1, HashMapNew)

(***************************************************************************)
(* The attribute of a field and the macro or parser that reads it.         *)
(***************************************************************************)
Field(field, attr, how) == [field |-> field, attr |-> attr, how |-> how]

\* One field read from its text: the value, or the kind of error, or a panic.
Read(tag, val, kind) == [tag |-> tag, val |-> val, kind |-> kind]
Parsed(option, kind) ==
    IF IsSome(option) THEN Read("Ok", option, "") ELSE Read("Err", None, kind)
Unwinding(returned) ==
    IF returned.panic THEN Read("Panic", None, "") ELSE Read("Ok", Some(returned.val), "")

\* A variant that reads Proficiency the way parse_float! reads a number.
ProficiencyOrFailure(text) == Parsed(ParseF64(text), "FloatParseError")

\* f64::from_str(text).ok(), the way the four entities read Proficiency.
Proficiency(text) == Read("Ok", Some(ParseF64(text)), "")

ReadField(how, text) ==
    CASE how = "get_attr_owned" -> Read("Ok", Some(text), "")
      [] how = "parse_date" -> Parsed(parse_date(text), "DateParseError")
      [] how = "parse_int" -> Parsed(ParseI8(text), "IntegerParseError")
      [] how = "parse_float" -> Parsed(ParseF64(text), "FloatParseError")
      [] how = "parse_bool" -> Parsed(ParseBool(text), "BoolParseError")
      [] how = "proficiency" -> Proficiency(text)
      [] how = "AssignmentScore" -> Unwinding(AssignmentScoreParse(text))
      [] how = "AssignmentPoints" -> Unwinding(AssignmentPointsParse(text))
      [] how = "AssignmentGradeCalcWeight" ->
             Read("Ok", Some(AssignmentGradeCalcWeightParse(text)), "")
      [] how = "CourseTitle" -> Read("Ok", Some(CourseTitleParse(text)), "")

\* A variant in which an optional field whose attribute is absent is None.
RECURSIVE ReadFieldsAbsentIsNone(_, _, _, _)
ReadFieldsAbsentIsNone(attrs, fields, i, acc) ==
    IF i > Len(fields) THEN [tag |-> "Ok", val |-> acc, err |-> NoError]
    ELSE LET f == fields[i]
         IN IF f.attr \notin DOMAIN attrs
            THEN IF f.how = "proficiency"
                 THEN ReadFieldsAbsentIsNone(attrs, fields, i + 1, acc @@ (f.field :> None))
                 ELSE [tag |-> "Err", val |-> acc, err |-> MissingAttribute(f.attr)]
            ELSE The({IF r.tag = "Err"
                      THEN [tag |-> "Err", val |-> acc,
                            err |-> DecodingError(r.kind, f.attr, NoEvent)]
                      ELSE IF r.tag = "Panic"
                      THEN [tag |-> "Panic", val |-> acc, err |-> NoError]
                      ELSE ReadFieldsAbsentIsNone(attrs, fields, i + 1,
                                                  acc @@ (f.field :> r.val[1])) :
                         r \in {ReadField(f.how, attrs[f.attr])}})

\* The fields of `fields`, read one after the other from the attribute map;
\* the first that is missing or does not parse ends the decode.
RECURSIVE ReadFields(_, _, _, _)
ReadFields(attrs, fields, i, acc) ==
    IF i > Len(fields) THEN [tag |-> "Ok", val |-> acc, err |-> NoError]
    ELSE LET f == fields[i]
         IN IF f.attr \notin DOMAIN attrs
            THEN [tag |-> "Err", val |-> acc, err |-> MissingAttribute(f.attr)]
            ELSE The({IF r.tag = "Err"
                      THEN [tag |-> "Err", val |-> acc,
                            err |-> DecodingError(r.kind, f.attr, NoEvent)]
                      ELSE IF r.tag = "Panic"
                      THEN [tag |-> "Panic", val |-> acc, err |-> NoError]
                      ELSE ReadFields(attrs, fields, i + 1, acc @@ (f.field :> r.val[1])) :
                         r \in {ReadField(f.how, attrs[f.attr])}})

\* The fields an entity reads before it pulls its first child event.
FieldsBeforeChildren(entity) ==
    CASE entity = "ReportPeriod" ->
           <<Field("end_date", "EndDate", "parse_date"),
             Field("grade_period", "GradePeriod", "get_attr_owned"),
             Field("index", "Index", "parse_int"),
             Field("start_date", "StartDate", "parse_date")>>
      [] entity = "ReportingPeriod" ->
           <<Field("end_date", "EndDate", "parse_date"),
             Field("grade_period", "GradePeriod", "get_attr_owned"),
             Field("start_date", "StartDate", "parse_date")>>
      [] entity = "Course" ->
           <<Field("highlight_percentage_cut_off_for_progress_bar",
                   "HighlightPercentageCutOffForProgressBar", "parse_int")>>
      [] entity = "Mark" -> <<>>
      [] entity = "StandardView" ->
           <<Field("cal_value", "CalValue", "parse_float"),
             Field("description", "Description", "get_attr_owned"),
             Field("mark", "Mark", "get_attr_owned"),
             Field("proficiency", "Proficiency", "proficiency"),
             Field("proficiency_max_value", "ProfciencyMaxValue", "parse_float")>>
      [] entity = "StandardAssignmentView" ->
           <<Field("_type", "Type", "get_attr_owned"),
             Field("assignment", "Assignment", "get_attr_owned"),
             Field("cal_value", "CalValue", "parse_float"),
             Field("due_date", "DueDate", "parse_date"),
             Field("gradebook_id", "GradebookID", "get_attr_owned"),
             Field("mark", "Mark", "get_attr_owned"),
             Field("proficiency", "Proficiency", "proficiency"),
             Field("proficiency_max_value", "ProfciencyMaxValue", "parse_float")>>
      [] entity = "AssignmentGradeCalc" ->
           <<Field("_type", "Type", "get_attr_owned"),
             Field("calculated_mark", "CalculatedMark", "get_attr_owned"),
             Field("points", "Points", "parse_float"),
             Field("points_possible", "PointsPossible", "parse_float"),
             Field("weight", "Weight", "AssignmentGradeCalcWeight"),
             Field("weighted_pct", "WeightedPct", "AssignmentGradeCalcWeight")>>
      [] entity = "Assignment" ->
           <<Field("_type", "Type", "get_attr_owned"),
             Field("gradebook_id", "GradebookID", "get_attr_owned"),
             Field("measure", "Measure", "get_attr_owned"),
             Field("date", "Date", "parse_date"),
             Field("due_date", "DueDate", "parse_date"),
             Field("score", "Score", "AssignmentScore"),
             Field("score_type", "ScoreType", "get_attr_owned"),
             Field("points", "Points", "AssignmentPoints"),
             Field("notes", "Notes", "get_attr_owned"),
             Field("teacher_id", "TeacherID", "get_attr_owned"),
             Field("student_id", "StudentID", "get_attr_owned"),
             Field("has_drop_box", "HasDropBox", "parse_bool"),
             Field("drop_start_date", "DropStartDate", "parse_date"),
             Field("drop_end_date", "DropEndDate", "parse_date")>>
      [] entity = "Standard" ->
           <<Field("subject", "Subject", "get_attr_owned"),
             Field("mark", "Mark", "get_attr_owned"),
             Field("description", "Description", "get_attr_owned"),
             Field("proficiency", "Proficiency", "proficiency"),
             Field("proficiency_max_value", "ProfciencyMaxValue", "parse_float")>>
      [] entity = "StandardScreenAssignment" ->
           <<Field("_type", "Type", "get_attr_owned"),
             Field("assignment", "Assignment", "get_attr_owned"),
             Field("due_date", "DueDate", "parse_date"),
             Field("mark", "Mark", "get_attr_owned"),
             Field("proficiency", "Proficiency", "proficiency"),
             Field("proficiency_max_value", "ProfciencyMaxValue", "parse_float")>>

\* A variant in which no entity reads a field after its child loop.
FieldsAfterChildrenNone(entity) == <<>>

\* The fields an entity reads after its child loop ended.
FieldsAfterChildren(entity) ==
    CASE entity = "Course" ->
           <<Field("period", "Period", "parse_int"),
             Field("room", "Room", "get_attr_owned"),
             Field("staff", "Staff", "get_attr_owned"),
             Field("staff_email", "StaffEMail", "get_attr_owned"),
             Field("title", "Title", "CourseTitle")>>
      [] entity = "Mark" ->
           <<Field("calculated_score_raw", "CalculatedScoreRaw", "parse_float"),
             Field("calculated_score_string", "CalculatedScoreString", "get_attr_owned"),
             Field("mark_name", "MarkName", "get_attr_owned")>>
      [] entity = "StandardView" ->
           <<Field("subject", "Subject", "get_attr_owned"),
             Field("subject_id", "SubjectID", "parse_int")>>
      [] OTHER -> <<>>

(***************************************************************************)
(* The child loops.  For every entity that has one: the child elements it  *)
(* decodes and the vector each goes to, the wrapper start tags it steps    *)
(* over, and the end tag its loop breaks on.                               *)
(***************************************************************************)
ChildVectors(entity) ==
    CASE entity = "Course" -> ("Mark" :> "marks")
      [] entity = "Mark" ->
           ("Assignment" :> "assignments")
           @@ ("AssignmentGradeCalc" :> "grade_calculation_summary")
           @@ ("StandardView" :> "standard_views")
      [] entity = "StandardView" -> ("StandardAssignmentView" :> "standard_assignment_views")
      [] entity = "Assignment" -> ("Standard" :> "standards")
      [] entity = "Standard" -> ("StandardScreenAssignment" :> "standard_screen_assignments")
      [] OTHER -> [t \in {} |-> ""]

Wrappers(entity) ==
    CASE entity = "Course" -> {"Marks"}
      [] entity = "Mark" -> {"Assignments", "GradeCalculationSummary", "StandardViews"}
      [] entity = "StandardView" -> {"StandardAssignmentViews"}
      [] entity = "Assignment" -> {"Standards", "Resources"}
      [] entity = "Standard" -> {"StandardScreenAssignments"}
      [] OTHER -> {}

\* A variant in which every loop breaks on the end event of its own element.
BreakTagOwnElement(entity) == entity

BreakTag(entity) ==
    CASE entity = "Course" -> "Course"
      [] entity = "Mark" -> "Mark"
      [] entity = "StandardView" -> "StandardAssignmentViews"
      [] entity = "Assignment" -> "Standards"
      [] entity = "Standard" -> "StandardScreenAssignments"

HasChildLoop(entity) == DOMAIN ChildVectors(entity) # {}

\* The vectors of an entity, filled from the children in the order in which
\* they were pushed.
RECURSIVE Pushed(_, _, _)
Pushed(children, tag, i) ==
    IF i > Len(children) THEN <<>>
    ELSE IF children[i].entity = tag THEN <<children[i].val>> \o Pushed(children, tag, i + 1)
    ELSE Pushed(children, tag, i + 1)

Vectors(entity, children) ==
    LET vectors == ChildVectors(entity)
        TagOf(field) == CHOOSE t \in DOMAIN vectors : vectors[t] = field
    IN [field \in {vectors[t] : t \in DOMAIN vectors} |-> Pushed(children, TagOf(field), 1)]

(***************************************************************************)
(* SVUEDecodeable::from_event, one pull of the cursor at a time.  A call   *)
(* in progress is a frame: the entity, the position of its start event,    *)
(* its attribute map, the fields read so far and the children pushed so    *)
(* far.  The root frame keeps the three locals of Gradebook::from_event in *)
(* its fields.                                                             *)
(***************************************************************************)
Frame(entity, start, attrs, fields) ==
    [entity |-> entity, start |-> start, attrs |-> attrs, fields |-> fields,
     children |-> <<>>]

Top == stack[Len(stack)]

\* A call of entity's decoder that was entered with the cursor at start and
\* ended with the cursor at stop.
Call(entity, start, stop, result) ==
    [entity |-> entity, start |-> start, stop |-> stop,
     tag |-> result.tag, val |-> result.val, err |-> result.err]

\* ReportingPeriod::default()
DefaultReportingPeriod ==
    [end_date |-> NaiveDate(1970, 1, 1),
     grade_period |-> "",
     start_date |-> NaiveDate(1970, 1, 1)]

\* A variant in which the caller puts the value in front of those it holds.
AcceptInFront(frame, entity, value) ==
    IF frame.entity # "Gradebook"
    THEN [frame EXCEPT !.children = <<[entity |-> entity, val |-> value]>> \o @]
    ELSE CASE entity = "Course" -> [frame EXCEPT !.fields.courses = <<value>> \o @]
           [] entity = "ReportPeriod" ->
                [frame EXCEPT !.fields.reporting_periods = <<value>> \o @]
           [] entity = "ReportingPeriod" -> [frame EXCEPT !.fields.reporting_period = value]

\* The caller takes the value its child returned.
Accept(frame, entity, value) ==
    IF frame.entity # "Gradebook"
    THEN [frame EXCEPT !.children = Append(@, [entity |-> entity, val |-> value])]
    ELSE CASE entity = "Course" -> [frame EXCEPT !.fields.courses = Append(@, value)]
           [] entity = "ReportPeriod" ->
                [frame EXCEPT !.fields.reporting_periods = Append(@, value)]
           [] entity = "ReportingPeriod" -> [frame EXCEPT !.fields.reporting_period = value]

\* A variant in which the caller drops the child that failed and goes on
\* with its loop.
CallerSkipsFailedChild(result, stop, first) ==
    /\ calls' = calls \o first
    /\ pc' = "decode"
    /\ UNCHANGED <<out, stack>>

\* A failure ends every call in progress, the innermost first (each `?` and
\* each unwinding frame hands it to its caller); `first` are the calls that
\* ended before those.
Unwind(result, stop, first) ==
    /\ out' = result
    /\ pc' = "done"
    /\ stack' = <<>>
    /\ calls' = calls \o first
                \o [i \in 1..Len(stack) |->
                       Call(stack[Len(stack) + 1 - i].entity,
                            stack[Len(stack) + 1 - i].start, stop, result)]

\* The arm of a loop that does nothing, or that calls a child decoder or
\* breaks: the stack, the calls and the result stay, the position moves.
Goto(position) ==
    /\ pc' = position
    /\ UNCHANGED <<stack, calls, out>>

\* One iteration of the loop of Course, Mark, StandardView, Assignment or
\* Standard: events_iter.next() and the arm that matches.  The arm of a
\* child start event calls the child's from_event ("enter"); the arm of the
\* end event the loop breaks on leads to the code after the loop ("leave").
LoopNext(entity) ==
    /\ pc = "decode"
    /\ Top.entity = entity
    /\ IF cursor >= Len(events)
       THEN /\ Unwind(Err(UnexpectedEnd), cursor, <<>>)
            /\ cursor' = cursor
       ELSE /\ cursor' = cursor + 1
            /\ \E event \in {events[cursor + 1]} :
                  CASE event.kind = "Err" -> Unwind(Err(EventError), cursor + 1, <<>>)
                    [] event.kind = "StartElement" ->
                         IF event.name \in DOMAIN ChildVectors(entity) THEN Goto("enter")
                         ELSE IF event.name \in Wrappers(entity) THEN Goto("decode")
                         ELSE Unwind(Err(UnexpectedEvent(event)), cursor + 1, <<>>)
                    [] event.kind = "EndElement" ->
                         IF event.name = BreakTag(entity) THEN Goto("leave")
                         ELSE Goto("decode")
                    [] event.kind = "Whitespace" -> Goto("decode")
                    [] OTHER -> Unwind(Err(UnexpectedEvent(event)), cursor + 1, <<>>)
    /\ UNCHANGED <<old, new, events>>

CourseNext == LoopNext("Course")
MarkNext == LoopNext("Mark")
StandardViewNext == LoopNext("StandardView")
AssignmentNext == LoopNext("Assignment")
StandardNext == LoopNext("Standard")

\* One iteration of the loop of Gradebook::from_event.
GradebookNext ==
    /\ pc = "decode"
    /\ Top.entity = "Gradebook"
    /\ IF cursor >= Len(events)
       THEN /\ Unwind(Err(UnexpectedEnd), cursor, <<>>)
            /\ cursor' = cursor
       ELSE /\ cursor' = cursor + 1
            /\ \E event \in {events[cursor + 1]} :
                  CASE event.kind = "Err" -> Unwind(Err(EventError), cursor + 1, <<>>)
                    [] event.kind = "StartElement"
                       /\ event.name \in {"Course", "ReportPeriod", "ReportingPeriod"} ->
                         Goto("enter")
                    [] event.kind = "EndElement" /\ event.name = "Gradebook" ->
                         /\ out' = Ok(Top.fields)
                         /\ pc' = "done"
                         /\ stack' = <<>>
                         /\ calls' = Append(calls, Call("Gradebook", Top.start, cursor + 1,
                                                        Ok(Top.fields)))
                    [] OTHER -> Goto("decode")
    /\ UNCHANGED <<old, new, events>>

\* from_event of an entity from its entry to its loop, called by the loop
\* that has just pulled the start event: the event is matched and the fields
\* that come before the loop are read.  An entity without a loop goes on to
\* build its value.
Enter ==
    /\ pc = "enter"
    /\ \E event \in {events[cursor]} :
       \E before \in {ReadFields(attributes_vec_to_map(event.attributes),
                                 FieldsBeforeChildren(event.name), 1, <<>>)} :
       \E failed \in {IF event.kind # "StartElement" THEN Err(UnexpectedEvent(event))
                      ELSE IF before.tag = "Err" THEN Err(before.err)
                      ELSE Panic} :
          IF event.kind # "StartElement" \/ before.tag # "Ok"
          THEN Unwind(failed, cursor, <<Call(event.name, cursor, cursor, failed)>>)
          ELSE /\ stack' = Append(stack, Frame(event.name, cursor,
                                               attributes_vec_to_map(event.attributes),
                                               before.val))
               /\ pc' = IF HasChildLoop(event.name) THEN "decode" ELSE "leave"
               /\ UNCHANGED <<calls, out>>
    /\ UNCHANGED <<old, new, events, cursor>>

\* from_event of an entity from the end of its loop to its return: the
\* remaining fields are read, the value is built and handed to the caller.
Leave ==
    /\ pc = "leave"
    /\ \E after \in {ReadFields(Top.attrs, FieldsAfterChildren(Top.entity), 1, Top.fields)} :
       \E value \in {after.val @@ Vectors(Top.entity, Top.children)} :
          IF after.tag # "Ok"
          THEN Unwind(IF after.tag = "Err" THEN Err(after.err) ELSE Panic, cursor, <<>>)
          ELSE /\ stack' = [SubSeq(stack, 1, Len(stack) - 1) EXCEPT ![Len(stack) - 1] =
                               Accept(@, Top.entity, value)]
               /\ calls' = Append(calls, Call(Top.entity, Top.start, cursor, Ok(value)))
               /\ pc' = "decode"
               /\ UNCHANGED out
    /\ UNCHANGED <<old, new, events, cursor>>

\* Gradebook::retrieve_for_grade_period once the response has arrived: the
\* first item of the iterator is unwrapped twice and handed to the root
\* decoder, which does not look at it.
Retrieve ==
    /\ pc = "call"
    /\ IF events = <<>> \/ events[1].kind = "Err"
       THEN /\ out' = Panic
            /\ pc' = "done"
            /\ UNCHANGED <<cursor, stack, calls>>
       ELSE /\ cursor' = 1
            /\ stack' = <<Frame("Gradebook", 1, HashMapNew,
                                [courses |-> <<>>,
                                 reporting_period |-> DefaultReportingPeriod,
                                 reporting_periods |-> <<>>])>>
            /\ pc' = "decode"
            /\ UNCHANGED <<out, calls>>
    /\ UNCHANGED <<old, new, events>>

(***************************************************************************)
(* Documents.  An element is the sequence of events the tokenizer emits    *)
(* for it: its start event, the events of its content, its end event (an   *)
(* empty-element tag yields both).                                         *)
(***************************************************************************)
Element(name, attributes, content) ==
    <<StartElement(name, attributes)>> \o content \o <<EndElement(name)>>

RECURSIVE Flatten(_)
Flatten(seqs) == IF seqs = <<>> THEN <<>> ELSE Head(seqs) \o Flatten(Tail(seqs))

ReportPeriodElement(index) ==
    Element("ReportPeriod",
            <<Attribute("Index", index), Attribute("GradePeriod", "S1"),
              Attribute("StartDate", "8/29/2016"), Attribute("EndDate", "1/27/2017")>>,
            <<>>)

ReportingPeriodElement ==
    Element("ReportingPeriod",
            <<Attribute("GradePeriod", "S1"), Attribute("StartDate", "8/29/2016"),
              Attribute("EndDate", "1/27/2017")>>,
            <<>>)

StandardScreenAssignmentElement ==
    Element("StandardScreenAssignment",
            <<Attribute("Type", "Homework"), Attribute("Assignment", "Essay"),
              Attribute("DueDate", "1/13/2017"), Attribute("Mark", "3"),
              Attribute("Proficiency", "3.0"), Attribute("ProfciencyMaxValue", "4.0")>>,
            <<>>)

StandardAttributes ==
    <<Attribute("Subject", "Writing"), Attribute("Mark", "3"),
      Attribute("Description", "Argues a claim"), Attribute("Proficiency", "N/A"),
      Attribute("ProfciencyMaxValue", "4.0")>>

StandardAssignmentViewElement ==
    Element("StandardAssignmentView",
            <<Attribute("Type", "Homework"), Attribute("Assignment", "Essay"),
              Attribute("CalValue", "3.0"), Attribute("DueDate", "1/13/2017"),
              Attribute("GradebookID", "1001"), Attribute("Mark", "3"),
              Attribute("Proficiency", "3.0"), Attribute("ProfciencyMaxValue", "4.0")>>,
            <<>>)

StandardViewAttributes ==
    <<Attribute("CalValue", "3.0"), Attribute("Description", "Argues a claim"),
      Attribute("Mark", "3"), Attribute("Proficiency", "3.0"),
      Attribute("ProfciencyMaxValue", "4.0"), Attribute("Subject", "Writing"),
      Attribute("SubjectID", "7")>>

AssignmentGradeCalcElement ==
    Element("AssignmentGradeCalc",
            <<Attribute("Type", "Homework"), Attribute("CalculatedMark", "B"),
              Attribute("Points", "17.00"), Attribute("PointsPossible", "20.00"),
              Attribute("Weight", "40%"), Attribute("WeightedPct", "34.00%")>>,
            <<>>)

AssignmentAttributes(id, score, points) ==
    <<Attribute("GradebookID", id), Attribute("Measure", "Essay"),
      Attribute("Type", "Homework"), Attribute("Date", "1/9/2017"),
      Attribute("DueDate", "1/13/2017"), Attribute("Score", score),
      Attribute("ScoreType", "Raw Score"), Attribute("Points", points),
      Attribute("Notes", ""), Attribute("TeacherID", "77"),
      Attribute("StudentID", "4242"), Attribute("HasDropBox", "false"),
      Attribute("DropStartDate", "1/9/2017"), Attribute("DropEndDate", "1/13/2017")>>

MarkAttributes ==
    <<Attribute("MarkName", "S1"), Attribute("CalculatedScoreString", "B"),
      Attribute("CalculatedScoreRaw", "85")>>

CourseAttributes(title) ==
    <<Attribute("Period", "1"), Attribute("Title", title), Attribute("Room", "101"),
      Attribute("Staff", "Ada Byron"), Attribute("StaffEMail", "ada@example.org"),
      Attribute("HighlightPercentageCutOffForProgressBar", "50")>>

\* The content of an Assignment element, by shape.
AssignmentContents ==
    [empty |-> <<>>,
     usual |-> Element("Resources", <<>>, <<>>) \o Element("Standards", <<>>, <<>>),
     standards |->
        Element("Standards", <<>>,
            Element("Standard", StandardAttributes,
                Element("StandardScreenAssignments", <<>>,
                        StandardScreenAssignmentElement))),
     bareStandard |->
        Element("Standards", <<>>, Element("Standard", StandardAttributes, <<>>))]

AssignmentElement(id, shape) ==
    Element("Assignment", AssignmentAttributes(id, "7 out of 10", "7.00 / 10.0000"),
            AssignmentContents[shape])

\* The content of a Mark element besides its assignments, by shape.
MarkContents ==
    [none |-> <<>>,
     usual |-> Element("StandardViews", <<>>, <<>>)
               \o Element("GradeCalculationSummary", <<>>, AssignmentGradeCalcElement),
     views |->
        Element("StandardViews", <<>>,
            Element("StandardView", StandardViewAttributes,
                Element("StandardAssignmentViews", <<>>, StandardAssignmentViewElement)))
        \o Element("GradeCalculationSummary", <<>>, <<>>),
     bareView |->
        Element("StandardViews", <<>>, Element("StandardView", StandardViewAttributes, <<>>))]

MarkElement(shape, assignments) ==
    Element("Mark", MarkAttributes,
            MarkContents[shape] \o Element("Assignments", <<>>, Flatten(assignments)))

CourseElement(title, marks) ==
    Element("Course", CourseAttributes(title), Element("Marks", <<>>, Flatten(marks)))

Document(courses) ==
    <<StartDocument>>
    \o Element("Gradebook", <<Attribute("Type", "Traditional")>>,
               Element("ReportingPeriods", <<>>,
                       ReportPeriodElement("0") \o ReportPeriodElement("1"))
               \o ReportingPeriodElement
               \o Element("Courses", <<>>, Flatten(courses)))
    \o <<EndDocument>>

\* The document as the tokenizer emits it when it is indented: a whitespace
\* event between every two adjacent tags.
RECURSIVE Indented(_)
Indented(doc) ==
    IF Len(doc) <= 2 THEN doc
    ELSE <<Head(doc)>>
         \o (IF Head(doc).kind \in {"StartElement", "EndElement"}
                /\ doc[2].kind \in {"StartElement", "EndElement"}
             THEN <<WhitespaceEvent>> ELSE <<>>)
         \o Indented(Tail(doc))

(***************************************************************************)
(* The decoding specification.  The documents are those of a few courses   *)
(* taken from DocumentCourses, as they are and indented, and damaged       *)
(* copies of some of them: cut short, cut short by a tokenizer error, with *)
(* a foreign element or a text event put in, with an attribute taken out   *)
(* or made malformed.                                                      *)
(***************************************************************************)
MaxDocumentCourses == 2

DocumentTitles == {"Algebra I (MATH101)", "Lunch"}

DocumentCourses ==
    {CourseElement(t, <<>>) : t \in DocumentTitles}
    \cup {Element("Course", CourseAttributes("Lunch"), <<>>)}
    \cup {CourseElement("Algebra I (MATH101)", <<MarkElement(m, as)>>) :
             m \in {"usual"},
             as \in {<<AssignmentElement("1001", "usual")>>,
                     <<AssignmentElement("1001", "usual"), AssignmentElement("1001", "usual")>>,
                     <<AssignmentElement("1001", "usual"), AssignmentElement("1002", "standards")>>,
                     <<AssignmentElement("1001", "empty"), AssignmentElement("1002", "usual")>>,
                     <<AssignmentElement("1001", "bareStandard")>>}}
    \cup {CourseElement("Lunch", <<MarkElement(m, <<AssignmentElement("1001", "usual")>>),
                                  MarkElement("none", <<>>)>>) :
             m \in {"views", "bareView"}}

WholeDocuments ==
    {Document(cs) : cs \in SeqsUpTo(DocumentCourses, MaxDocumentCourses)}

\* The documents that are damaged.
DamagedBases ==
    {Document(<<CourseElement("Algebra I (MATH101)",
                   <<MarkElement("views", <<AssignmentElement("1001", "standards")>>)>>)>>),
     Document(<<CourseElement("Lunch",
                   <<MarkElement("usual", <<AssignmentElement("1001", "usual"),
                                            AssignmentElement("1002", "usual")>>)>>)>>)}

InsertedAfter(doc, k, items) == SubSeq(doc, 1, k) \o items \o SubSeq(doc, k + 1, Len(doc))

WithoutAttribute(attributes, j) ==
    SubSeq(attributes, 1, j - 1) \o SubSeq(attributes, j + 1, Len(attributes))

Malformed == {"", "x", "1.2.3 / 4"}

Damaged(doc) ==
    {SubSeq(doc, 1, k) : k \in 0..(Len(doc) - 1)}
    \cup {SubSeq(doc, 1, k) \o <<ReaderError>> : k \in 0..(Len(doc) - 1)}
    \cup {InsertedAfter(doc, k, Element("Extra", <<>>, <<>>)) : k \in 1..(Len(doc) - 1)}
    \cup {InsertedAfter(doc, k, <<Characters>>) : k \in 1..(Len(doc) - 1)}
    \cup UNION {{[doc EXCEPT ![k].attributes = WithoutAttribute(@, j)] :
                    j \in 1..Len(doc[k].attributes)} : k \in DOMAIN doc}
    \cup UNION {{[doc EXCEPT ![k].attributes[j].value = v] :
                    j \in 1..Len(doc[k].attributes), v \in Malformed} : k \in DOMAIN doc}

\* A document whose last Assignment element has no children, as it is, cut
\* short, cut short by a tokenizer error, and with a stray empty Standards
\* or Standard element put in.
BareAssignmentBase ==
    Document(<<CourseElement("Lunch",
                  <<MarkElement("none", <<AssignmentElement("1001", "empty")>>)>>)>>)

BareAssignmentDocuments ==
    {SubSeq(BareAssignmentBase, 1, k) : k \in 1..Len(BareAssignmentBase)}
    \cup {SubSeq(BareAssignmentBase, 1, k) \o <<ReaderError>> :
             k \in 1..(Len(BareAssignmentBase) - 1)}
    \cup {InsertedAfter(BareAssignmentBase, k, Element(tag, <<>>, <<>>)) :
             k \in 1..(Len(BareAssignmentBase) - 1), tag \in {"Standards", "Standard"}}

\* The attributes with the one called `name` set to value.
Renamed(attributes, name, value) ==
    [j \in DOMAIN attributes |->
        IF attributes[j].name = name THEN Attribute(name, value) ELSE attributes[j]]

\* A document that holds two different children of every kind the decoders
\* collect: courses, report periods, marks, standard views, grade
\* calculation entries, assignments and standards.
OrderedStandardView(subject) ==
    Element("StandardView", Renamed(StandardViewAttributes, "Subject", subject),
            Element("StandardAssignmentViews", <<>>, StandardAssignmentViewElement))

OrderedStandard(subject) ==
    Element("Standard",
            Renamed(Renamed(StandardAttributes, "Subject", subject), "Proficiency", "3.0"),
            Element("StandardScreenAssignments", <<>>, StandardScreenAssignmentElement))

OrderedMark(name) ==
    Element("Mark", Renamed(MarkAttributes, "MarkName", name),
        Element("StandardViews", <<>>,
                OrderedStandardView("Reading") \o OrderedStandardView("Writing"))
        \o Element("GradeCalculationSummary", <<>>,
               AssignmentGradeCalcElement
               \o Element("AssignmentGradeCalc",
                          Renamed(AssignmentGradeCalcElement[1].attributes, "Type", "Tests"),
                          <<>>))
        \o Element("Assignments", <<>>,
               Element("Assignment",
                       AssignmentAttributes("1002", "7 out of 10", "7.00 / 10.0000"),
                       Element("Standards", <<>>,
                               OrderedStandard("Writing") \o OrderedStandard("Reading")))
               \o AssignmentElement("1001", "usual")))

OrderedDocument ==
    Document(<<Element("Course", CourseAttributes("Lunch"),
                   Element("Marks", <<>>, OrderedMark("S2") \o OrderedMark("S1"))),
               CourseElement("Algebra I (MATH101)", <<>>)>>)

\* Documents with two defects.  The first is in an attribute of the Course
\* or of the Mark element: taken out, or made malformed.  The second is a
\* child that fails (the second Assignment without its GradebookID) or the
\* end of the events before the end of the document.
TwiceDamagedBase ==
    Document(<<CourseElement("Lunch",
                  <<MarkElement("usual", <<AssignmentElement("1001", "usual"),
                                           AssignmentElement("1002", "usual")>>)>>)>>)

Lacking(attributes, name) ==
    WithoutAttribute(attributes, CHOOSE j \in DOMAIN attributes : attributes[j].name = name)

AttributeDefects(doc) ==
    UNION {{[doc EXCEPT ![k].attributes = Lacking(@, doc[k].attributes[j].name)] :
               j \in DOMAIN doc[k].attributes} :
              k \in {k \in DOMAIN doc : doc[k].kind = "StartElement"
                                         /\ doc[k].name \in {"Course", "Mark"}}}
    \cup {[doc EXCEPT ![k].attributes = Renamed(@, name, "x")] :
             k \in {k \in DOMAIN doc : doc[k].kind = "StartElement"
                                        /\ doc[k].name \in {"Course", "Mark"}},
             name \in {"Period", "CalculatedScoreRaw",
                       "HighlightPercentageCutOffForProgressBar"}}

ChildDefects(doc) ==
    {[doc EXCEPT ![k].attributes = Lacking(@, "GradebookID")] :
        k \in {k \in DOMAIN doc :
                  /\ doc[k].kind = "StartElement"
                  /\ doc[k].name = "Assignment"
                  /\ \E j \in DOMAIN doc[k].attributes :
                        doc[k].attributes[j] = Attribute("GradebookID", "1002")}}
    \cup {SubSeq(doc, 1, k) : k \in 12..(Len(doc) - 1)}

TwiceDamagedDocuments ==
    UNION {ChildDefects(doc) : doc \in AttributeDefects(TwiceDamagedBase)}

Documents ==
    WholeDocuments
    \cup {Indented(doc) : doc \in WholeDocuments}
    \cup UNION {Damaged(doc) : doc \in DamagedBases}
    \cup BareAssignmentDocuments
    \cup {OrderedDocument, Indented(OrderedDocument)}
    \cup TwiceDamagedDocuments

InitDecode ==
    /\ events \in Documents
    /\ old = None
    /\ new = None
    /\ out = Panic
    /\ pc = "call"
    /\ cursor = 0
    /\ stack = <<>>
    /\ calls = <<>>

NextDecode ==
    \/ Retrieve
    \/ GradebookNext
    \/ CourseNext
    \/ MarkNext
    \/ StandardViewNext
    \/ AssignmentNext
    \/ StandardNext
    \/ Enter
    \/ Leave

SpecDecode == InitDecode /\ [][NextDecode]_vars

(***************************************************************************)
(* Properties of the decoders.                                             *)
(***************************************************************************)
\* The position of the end event that closes the element whose start event
\* is at position i, or 0 when the sequence ends before it.
RECURSIVE ClosingFrom(_, _, _)
ClosingFrom(doc, j, depth) ==
    IF j > Len(doc) THEN 0
    ELSE IF doc[j].kind = "StartElement" THEN ClosingFrom(doc, j + 1, depth + 1)
    ELSE IF doc[j].kind = "EndElement"
         THEN IF depth = 1 THEN j ELSE ClosingFrom(doc, j + 1, depth - 1)
    ELSE ClosingFrom(doc, j + 1, depth)

MatchingEnd(doc, i) == ClosingFrom(doc, i + 1, 1)

\* The sequence is what the tokenizer emits for a well-formed document: a
\* start of document, one root element in which every start event is closed
\* by the end event of its name, an end of document, and no error.  `open`
\* are the names of the elements open at position i, the innermost first.
RECURSIVE Nested(_, _, _)
Nested(doc, i, open) ==
    IF i = Len(doc) THEN open = <<>>
    ELSE IF doc[i].kind = "StartElement"
         THEN (i = 2 \/ open # <<>>) /\ Nested(doc, i + 1, <<doc[i].name>> \o open)
    ELSE IF doc[i].kind = "EndElement"
         THEN open # <<>> /\ Head(open) = doc[i].name /\ Nested(doc, i + 1, Tail(open))
    ELSE doc[i].kind \in {"Whitespace", "Characters"} /\ open # <<>>
         /\ Nested(doc, i + 1, open)

WellFormed(doc) ==
    /\ Len(doc) >= 4
    /\ doc[1] = StartDocument
    /\ doc[Len(doc)] = EndDocument
    /\ doc[2].kind = "StartElement"
    /\ Nested(doc, 2, <<>>)

\* The calls of entity decoders that returned a value.
SuccessfulCalls ==
    {k \in DOMAIN calls : calls[k].tag = "Ok" /\ calls[k].entity # "Gradebook"}

\* C5: every entity decoder that returns a value, called on the start event
\* of its element in a well-formed document, leaves the cursor immediately
\* after the end event that closes that start event: it has consumed all of
\* its own subtree and nothing of a sibling or of its parent.
C5_CursorAfterOwnEnd ==
    (pc = "done" /\ WellFormed(events)) =>
        \A k \in SuccessfulCalls :
            calls[k].stop = MatchingEnd(events, calls[k].start)

\* The start tags a decoder knows: its child entities and its container
\* wrappers.  The root has no arm for its wrappers; they are the two list
\* holders of the document, and its own start tag, which its loop pulls
\* because the caller hands it the start of the document.
KnownStartTags(entity) ==
    IF entity = "Gradebook"
    THEN {"Gradebook", "Course", "ReportPeriod", "ReportingPeriod", "Courses",
          "ReportingPeriods"}
    ELSE DOMAIN ChildVectors(entity) \cup Wrappers(entity)

\* The loop of the decoder in progress is about to pull a start event whose
\* tag it does not know.
PullsUnknownStart ==
    /\ pc = "decode"
    /\ cursor < Len(events)
    /\ events[cursor + 1].kind = "StartElement"
    /\ events[cursor + 1].name \notin KnownStartTags(Top.entity)

\* C11: in every entity decoder, the Gradebook root included, a start event
\* whose tag is neither a known child entity nor a known container wrapper
\* of that entity makes the decode fail with UnexpectedEvent carrying that
\* event; it is never skipped.
C11_UnknownStartTagFails ==
    [][PullsUnknownStart => out' = Err(UnexpectedEvent(events[cursor + 1]))]_vars

\* The events the loop of a decoder is entitled to: the start events of its
\* known tags, the end event of its own tag and whitespace.
Expected(entity, event) ==
    \/ event.kind = "StartElement" /\ event.name \in KnownStartTags(entity)
    \/ event.kind = "EndElement" /\ event.name = entity
    \/ event.kind = "Whitespace"

\* The loop of the decoder in progress is about to pull an event (not an
\* error of the tokenizer) that is none of those.
PullsOtherEvent ==
    /\ pc = "decode"
    /\ cursor < Len(events)
    /\ events[cursor + 1].kind # "Err"
    /\ ~Expected(Top.entity, events[cursor + 1])

\* C12: while a decoder is reading its children, every event other than a
\* known-child start event, a container-wrapper start event, the end event
\* of the entity's own tag or a whitespace event (a text event, say, or an
\* end event naming another tag) makes the decode fail with UnexpectedEvent
\* carrying that event.
C12_OtherEventFails ==
    [][PullsOtherEvent => out' = Err(UnexpectedEvent(events[cursor + 1]))]_vars

\* The loop of the decoder in progress asks for an event and there is none
\* left.
Exhausted == pc = "decode" /\ cursor >= Len(events)

\* C13: when the event sequence is exhausted while a decoder (Gradebook,
\* Course, Mark, Assignment, StandardView or Standard) is still in its loop,
\* the whole decode ends with the error UnexpectedEnd and returns no value.
C13_ExhaustedIsUnexpectedEnd ==
    [][Exhausted => /\ pc' = "done"
                    /\ out'.tag = "Err"
                    /\ out'.err.kind = "UnexpectedEnd"
                    /\ out'.val = None
                    /\ \A k \in (Len(calls) + 1)..Len(calls') :
                          calls'[k].tag = "Err" /\ calls'[k].err.kind = "UnexpectedEnd"]_vars

\* The sequence ran out inside a Standard, and the Standard, its
\* Assignment, Mark and Course and the root all ended with UnexpectedEnd.
C13_Witness ==
    /\ pc = "done"
    /\ cursor = Len(events)
    /\ out.tag = "Err" /\ out.err.kind = "UnexpectedEnd"
    /\ \E k \in DOMAIN calls :
          /\ k + 4 = Len(calls)
          /\ [i \in 0..4 |-> calls[k + i].entity]
               = [i \in 0..4 |-> <<"Standard", "Assignment", "Mark", "Course", "Gradebook">>[i + 1]]
          /\ \A i \in 0..4 : calls[k + i].err.kind = "UnexpectedEnd"

(***************************************************************************)
(* The parsing specification: one call of one of the free-text parsers of  *)
(* gradebook.rs on one text.  The call is the frame on the stack; `out` is *)
(* what it returned, or that it panicked.  The texts are the               *)
(* concatenations of a few tokens taken from TextTokens, and some texts of *)
(* the shapes the service sends.                                           *)
(***************************************************************************)
MaxTokens == 3

TextTokens == {"7", ".", " ", "out of", "/", "%", "()", "Points Possible", "x", "(x)"}

RECURSIVE Concat(_)
Concat(tokens) == IF tokens = <<>> THEN "" ELSE Head(tokens) \o Concat(Tail(tokens))

ServiceTexts ==
    {"Not Due", "Not Graded", "See Standards", "7 out of 10", "1.2.3 out of 4", "85.5 ()",
     "7.00 / 10.0000", "10.0000 Points Possible", "1.2.3 Points Possible", "40%", "4.0.0%",
     "Algebra I (MATH101)", "Lunch", "(7)", "(85.5)", "7 out of 10 (70)", "x7 out of 10",
     "7/10", "7/10 of 10 Points Possible", "Points Possible 7/10", "Lunch (A) (B)",
     " (MATH101)", "Algebra I (MATH101) "}

Texts == {Concat(tokens) : tokens \in SeqsUpTo(TextTokens, MaxTokens)} \cup ServiceTexts

Parsers == {"AssignmentScore", "AssignmentPoints", "AssignmentGradeCalcWeight", "CourseTitle"}

InitParse ==
    /\ stack \in {<<[parser |-> p, text |-> t]>> : p \in Parsers, t \in Texts}
    /\ old = None
    /\ new = None
    /\ events = <<>>
    /\ out = Panicked
    /\ pc = "call"
    /\ cursor = 0
    /\ calls = <<>>

\* The call on the stack runs to its end.
Parse(parser, result) ==
    /\ pc = "call"
    /\ stack[1].parser = parser
    /\ out' = result
    /\ pc' = "done"
    /\ UNCHANGED <<old, new, events, cursor, stack, calls>>

ParseScore == Parse("AssignmentScore", AssignmentScoreParse(stack[1].text))
ParsePoints == Parse("AssignmentPoints", AssignmentPointsParse(stack[1].text))
ParseWeight ==
    Parse("AssignmentGradeCalcWeight", Returned(AssignmentGradeCalcWeightParse(stack[1].text)))
ParseTitle == Parse("CourseTitle", Returned(CourseTitleParse(stack[1].text)))

NextParse == ParseScore \/ ParsePoints \/ ParseWeight \/ ParseTitle

SpecParse == InitParse /\ [][NextParse]_vars

(***************************************************************************)
(* Properties of the free-text parsers.                                    *)
(***************************************************************************)
\* The text an Unparseable value of the parser carries for the text given:
\* AssignmentGradeCalcWeight trims it first.
Carried(parser, text) == IF parser = "AssignmentGradeCalcWeight" THEN trim(text) ELSE text

\* C14: AssignmentScore::parse, AssignmentPoints::parse,
\* AssignmentGradeCalcWeight::parse and CourseTitle::parse return a value
\* for every text and never abort; a text they do not recognise, one whose
\* numeric parts are runs of digits and dots that are no number included,
\* yields the Unparseable variant carrying the text.
C14_ParsersNeverFail ==
    pc = "done" =>
        /\ ~out.panic
        /\ out.val.tag = "Unparseable" => out.val.raw = Carried(stack[1].parser, stack[1].text)

\* The sequence is that of the document `base` with attribute j of the
\* start event at position k taken out.
LacksAttribute(base, k, j) ==
    /\ base[k].name # "Gradebook"
    /\ events = [base EXCEPT ![k].attributes = WithoutAttribute(@, j)]

\* C15: decoding an element that lacks one of its required attributes fails
\* with MissingAttribute carrying the name of that attribute and with no
\* other kind of error, whatever the entity and whatever the attribute: the
\* decoder of that element returns this error and so does the whole decode.
C15_AbsentAttributeIsMissingAttribute ==
    pc = "done" =>
        \A base \in DamagedBases : \A k \in DOMAIN base :
            \A j \in 1..Len(base[k].attributes) :
                LacksAttribute(base, k, j) =>
                    /\ out.tag = "Err"
                    /\ out.val = None
                    /\ out.err.kind = "MissingAttribute"
                    /\ out.err.attr = base[k].attributes[j].name
                    /\ \E c \in DOMAIN calls :
                          /\ calls[c].entity = base[k].name
                          /\ calls[c].start = k
                          /\ calls[c].tag = "Err"
                          /\ calls[c].err = out.err

\* A Mark without its MarkName: the attribute is read after the children of
\* the Mark were decoded.
C15_Witness ==
    /\ pc = "done"
    /\ out.tag = "Err" /\ out.err.kind = "MissingAttribute" /\ out.err.attr = "MarkName"
    /\ \E base \in DamagedBases : \E k \in DOMAIN base :
          \E j \in 1..Len(base[k].attributes) :
             /\ base[k].name = "Mark"
             /\ LacksAttribute(base, k, j)
    /\ \E c \in DOMAIN calls : calls[c].entity = "Assignment" /\ calls[c].tag = "Ok"

\* The documents of the decoding specification that are not damaged: every
\* element is one the decoders know, with all its attributes, each valid.
SoundDocuments == WholeDocuments \cup {Indented(doc) : doc \in WholeDocuments}

\* The positions of the start events named `tag` inside the element that
\* starts at position p, and the i-th of them in document order.
StartsInside(doc, tag, p) ==
    {q \in (p + 1)..(MatchingEnd(doc, p) - 1) :
        doc[q].kind = "StartElement" /\ doc[q].name = tag}

Nth(positions, i) == CHOOSE p \in positions : Cardinality({q \in positions : q < p}) = i - 1

\* The decoded assignment carries the values of the attributes of the start
\* event, each read the way Assignment::from_event reads it.
Carries(assignment, event) ==
    \A i \in DOMAIN FieldsBeforeChildren("Assignment") :
        ReadField(FieldsBeforeChildren("Assignment")[i].how,
                  attributes_vec_to_map(event.attributes)
                      [FieldsBeforeChildren("Assignment")[i].attr])
          = Read("Ok", Some(assignment[FieldsBeforeChildren("Assignment")[i].field]), "")

\* The decoded mark holds one assignment for each Assignment element of the
\* Mark element at position p, in the order of the document.
HoldsAssignmentsOf(mark, doc, p) ==
    /\ Len(mark.assignments) = Cardinality(StartsInside(doc, "Assignment", p))
    /\ \A i \in DOMAIN mark.assignments :
          Carries(mark.assignments[i], doc[Nth(StartsInside(doc, "Assignment", p), i)])

\* The same for the marks of the Course element at position p.
HoldsMarksOf(course, doc, p) ==
    /\ Len(course.marks) = Cardinality(StartsInside(doc, "Mark", p))
    /\ \A m \in DOMAIN course.marks :
          HoldsAssignmentsOf(course.marks[m], doc, Nth(StartsInside(doc, "Mark", p), m))

\* C16: decoding a well-formed Course subtree that contains N Assignment
\* elements yields a Course whose mark holds exactly N assignments, the i-th
\* carrying the attribute values of the i-th Assignment element.
C16_EveryAssignmentDecoded ==
    (pc = "done" /\ events \in SoundDocuments) =>
        /\ out.tag = "Ok"
        /\ Len(out.val[1].courses) = Cardinality(StartsInside(events, "Course", 2))
        /\ \A c \in DOMAIN out.val[1].courses :
              HoldsMarksOf(out.val[1].courses[c], events,
                           Nth(StartsInside(events, "Course", 2), c))

\* C17: when a nested entity decoder fails, the Gradebook decode returns
\* that same error and no Gradebook: no decode goes on, or returns a tree,
\* after a decoder it called has failed.
C17_FailureAbortsTheDecode ==
    \A k \in DOMAIN calls :
        calls[k].tag # "Ok" =>
            /\ pc = "done"
            /\ out.tag = calls[k].tag
            /\ out.err = calls[k].err
            /\ out.val = None

\* A Standard failed on one of its attributes after a Course, a Mark and an
\* Assignment had begun and a StandardView had been decoded; every call in
\* progress ended with that error.
C17_Witness ==
    /\ pc = "done"
    /\ out.tag = "Err"
    /\ out.err.kind \in {"MissingAttribute", "FloatParseError"}
    /\ \E k \in DOMAIN calls :
          /\ calls[k].entity = "Standard"
          /\ calls[k].tag = "Err"
          /\ \E j \in 1..(k - 1) : calls[j].entity = "StandardView" /\ calls[j].tag = "Ok"
          /\ {calls[i].entity : i \in (k + 1)..Len(calls)}
               = {"Assignment", "Mark", "Course", "Gradebook"}

\* The marks of the Gradebook the decode returned.
DecodedMarks ==
    IF pc = "done" /\ out.tag = "Ok"
    THEN UNION {{out.val[1].courses[c].marks[m] : m \in DOMAIN out.val[1].courses[c].marks} :
                   c \in DOMAIN out.val[1].courses}
    ELSE {}

\* C18: in every Mark the decoder returns, no two assignments of the
\* assignment list have the same gradebook_id.
C18_GradebookIdsUnique ==
    \A mark \in DecodedMarks :
        \A i, j \in DOMAIN mark.assignments :
            mark.assignments[i].gradebook_id = mark.assignments[j].gradebook_id => i = j

\* The new book is the old one but for the score, the points or both of the
\* assignment a of the mark m of the course c.
OnlyScoreDiffers(c, m, a) ==
    /\ c \in DOMAIN new.courses
    /\ m \in DOMAIN new.courses[c].marks
    /\ a \in DOMAIN new.courses[c].marks[m].assignments
    /\ new.courses[c].marks[m].assignments[a] # old.courses[c].marks[m].assignments[a]
    /\ new = [old EXCEPT !.courses[c].marks[m].assignments[a] =
                 [@ EXCEPT !.score = new.courses[c].marks[m].assignments[a].score,
                           !.points = new.courses[c].marks[m].assignments[a].points]]

\* The changeset has one course entry, about the course c, without course
\* changes and with one assignment entry, about the assignment a of its
\* mark m, which lists changes of points and score only.
ReportsOnlyScore(c, m, a) ==
    /\ ~out.panic
    /\ IsSome(out.val)
    /\ Len(Changes) = 1
    /\ Changes[1].old = Some(old.courses[c])
    /\ Changes[1].new = Some(new.courses[c])
    /\ IsNone(Changes[1].changes)
    /\ IsSome(Changes[1].assignment_changes)
    /\ Len(Changes[1].assignment_changes[1]) = 1
    /\ Changes[1].assignment_changes[1][1].old = Some(old.courses[c].marks[m].assignments[a])
    /\ Changes[1].assignment_changes[1][1].new = Some(new.courses[c].marks[m].assignments[a])
    /\ Changes[1].assignment_changes[1][1].changes # <<>>
    /\ \A k \in DOMAIN Changes[1].assignment_changes[1][1].changes :
          Changes[1].assignment_changes[1][1].changes[k].tag \in {"PointsChange", "ScoreChange"}

\* C19: diffing two gradebooks that are identical except for the points or
\* the score of one assignment yields a changeset with exactly one course
\* entry, which has no course-level change and exactly one assignment
\* entry, which holds PointsChange and ScoreChange records only.
C19_OneScoreChange ==
    pc = "done" =>
        \A c \in DOMAIN old.courses : \A m \in DOMAIN old.courses[c].marks :
            \A a \in DOMAIN old.courses[c].marks[m].assignments :
                OnlyScoreDiffers(c, m, a) => ReportsOnlyScore(c, m, a)

\* The pairs as pairs of values, and the multiset of the pairs of a list:
\* for every pair, the number of positions that hold it.
ValuePairs(olds, news, pairs) ==
    [p \in DOMAIN pairs |-> [o |-> Cloned(olds, pairs[p].o), n |-> Cloned(news, pairs[p].n)]]

MultisetOf(pairs) ==
    [v \in {pairs[p] : p \in DOMAIN pairs} |-> Occurrences(pairs, v)]

\* The collections that hold the elements of vals in another order.
Reorderings(vals) ==
    {[i \in DOMAIN vals |-> vals[perm[i]]] : perm \in IterationOrders(DOMAIN vals)}

\* C20: reordering the elements of old, or of new, does not change the
\* multiset of the pairs that pair_with(old, new) returns.
C20_PairsStableUnderReordering ==
    pc = "done" =>
        \A olds \in Reorderings(old), news \in Reorderings(new) :
            \A order \in IterationOrders(KeysOf(news)) :
                MultisetOf(ValuePairs(olds, news, pair_with(olds, news, order)))
                  = MultisetOf(ValuePairs(old, new, out.val))

(***************************************************************************)
(* The locating specification: SVUEResponse::get_expected_xml of           *)
(* src/src/api.rs on the inner document of a response.  The document is    *)
(* the sequence of the items its tokenizer yields (`events`); the call on  *)
(* the stack holds the tag that is expected; the text of a Characters      *)
(* event is kept in its name.                                              *)
(***************************************************************************)
CharactersOf(text) == Event("Characters", text, <<>>)
Comment == Event("Comment", "", <<>>)

\* api.rs: DecodedSVUEError and SVUERequestError, and the results of
\* get_expected_xml.  `inner` is the DecodingError an error wraps.
DecodedSVUEError(message, trace) == [error_message |-> message, stack_trace |-> trace]
NoSVUEError == DecodedSVUEError("", "")

SVUERequestError(kind, text, svue, inner) ==
    [kind |-> kind, text |-> text, svue |-> svue, inner |-> inner]
NoRequestError == SVUERequestError("", "", NoSVUEError, NoError)
\* A variant in which the missing tag is reported although an error record
\* was seen.
ErrorRecordReportsTagNotFound(svue) ==
    SVUERequestError("ExpectedTagNotFound", "", NoSVUEError, NoError)
ExpectedTagNotFound(tag) == SVUERequestError("ExpectedTagNotFound", tag, NoSVUEError, NoError)
RawDecodingError == SVUERequestError("RawDecodingError", "", NoSVUEError, NoError)
SVUEError(svue) == SVUERequestError("SVUEError", "", svue, NoError)
SVUEErrorParsingFailed(inner) ==
    SVUERequestError("SVUEErrorParsingFailed", "", NoSVUEError, inner)

Located(xml) == [tag |-> "Ok", val |-> Some(xml), err |-> NoRequestError]
NotLocated(e) == [tag |-> "Err", val |-> None, err |-> e]

\* DecodedSVUEError::decode: the loop over the items of the tokenizer from
\* item i on, with the message and the trace seen so far, and the match on
\* the two after it.  A failure to read the record is the DecodingError
\* SVUEErrorParsingFailed(xml), of kind "SVUEErrorParsingFailed".
RECURSIVE DecodeSVUEError(_, _, _, _)
DecodeSVUEError(xml, i, error, stack_trace) ==
    IF i > Len(xml)
       \/ (xml[i].kind = "EndElement" /\ xml[i].name = "RT_ERROR")
    THEN IF IsSome(error) /\ IsSome(stack_trace)
         THEN Ok(DecodedSVUEError(error[1], stack_trace[1]))
         ELSE Err(DecodingError("SVUEErrorParsingFailed", "", NoEvent))
    ELSE IF xml[i].kind = "Err" THEN Err(EventError)
    ELSE IF xml[i].kind = "StartElement" /\ xml[i].name = "RT_ERROR"
    THEN IF "ERROR_MESSAGE" \in DOMAIN attributes_vec_to_map(xml[i].attributes)
         THEN DecodeSVUEError(xml, i + 1,
                              Some(attributes_vec_to_map(xml[i].attributes)["ERROR_MESSAGE"]),
                              stack_trace)
         ELSE Err(MissingAttribute("ERROR_MESSAGE"))
    ELSE IF xml[i].kind = "Characters"
    THEN DecodeSVUEError(xml, i + 1, error, Some(xml[i].name))
    ELSE IF xml[i].kind \in {"StartElement", "EndElement", "StartDocument", "Whitespace"}
    THEN DecodeSVUEError(xml, i + 1, error, stack_trace)
    ELSE Err(UnexpectedEvent(xml[i]))

\* The first loop of get_expected_xml from item i on: "found", "error",
\* "raw" when the tokenizer fails first, "neither" when the items run out.
RECURSIVE ScanForExpected(_, _, _)
ScanForExpected(xml, expect, i) ==
    IF i > Len(xml) THEN "neither"
    ELSE IF xml[i].kind = "Err" THEN "raw"
    ELSE IF xml[i].kind = "StartElement" /\ xml[i].name = expect THEN "found"
    ELSE IF xml[i].kind = "StartElement" /\ xml[i].name = "RT_ERROR" THEN "error"
    ELSE ScanForExpected(xml, expect, i + 1)

\* SVUEResponse::get_expected_xml
get_expected_xml(xml, expect) ==
    CASE ScanForExpected(xml, expect, 1) = "raw" -> NotLocated(RawDecodingError)
      [] ScanForExpected(xml, expect, 1) = "found" -> Located(xml)
      [] ScanForExpected(xml, expect, 1) = "error" ->
           IF DecodeSVUEError(xml, 1, None, None).tag = "Ok"
           THEN NotLocated(SVUEError(DecodeSVUEError(xml, 1, None, None).val[1]))
           ELSE NotLocated(SVUEErrorParsingFailed(DecodeSVUEError(xml, 1, None, None).err))
      [] OTHER -> NotLocated(ExpectedTagNotFound(expect))

\* The elements the documents are made of: the two payloads, an error
\* record, error records without their message or without their trace, a
\* foreign element, whitespace and a comment.
PortalMessage == "Invalid user id or password"
PortalTrace == "at PXPCommunication.ProcessWebServiceRequest"

ErrorRecord ==
    Element("RT_ERROR", <<Attribute("ERROR_MESSAGE", PortalMessage)>>,
            Element("STACK_TRACE", <<>>, <<CharactersOf(PortalTrace)>>))

DocumentParts ==
    {Element("Gradebook", <<Attribute("Type", "Traditional")>>, <<WhitespaceEvent>>),
     Element("ChildList", <<>>, Element("Child", <<>>, <<>>)),
     ErrorRecord,
     Element("RT_ERROR", <<>>, Element("STACK_TRACE", <<>>, <<CharactersOf(PortalTrace)>>)),
     Element("RT_ERROR", <<Attribute("ERROR_MESSAGE", PortalMessage)>>, <<>>),
     Element("Notice", <<>>, <<CharactersOf("maintenance")>>),
     <<WhitespaceEvent>>,
     <<Comment>>}

MaxParts == 2

\* A part as the whole document, or up to MaxParts parts inside an envelope
\* element; and such documents cut short by an error of the tokenizer.
InnerDocuments ==
    {<<StartDocument>> \o part \o <<EndDocument>> :
        part \in {p \in DocumentParts : p[1].kind = "StartElement"}}
    \cup {<<StartDocument>> \o Element("Response", <<>>, Flatten(parts)) \o <<EndDocument>> :
             parts \in SeqsUpTo(DocumentParts, MaxParts)}

CutShort(doc) == {SubSeq(doc, 1, k) \o <<ReaderError>> : k \in 0..(Len(doc) - 1)}

ExpectedTags == {"Gradebook", "ChildList"}

InitLocate ==
    /\ events \in InnerDocuments \cup UNION {CutShort(doc) : doc \in InnerDocuments}
    /\ stack \in {<<[expect |-> tag]>> : tag \in ExpectedTags}
    /\ old = None
    /\ new = None
    /\ out = NotLocated(NoRequestError)
    /\ pc = "call"
    /\ cursor = 0
    /\ calls = <<>>

\* Self::get_expected_xml(cs, expect)
GetExpectedXml ==
    /\ pc = "call"
    /\ out' = get_expected_xml(events, stack[1].expect)
    /\ pc' = "done"
    /\ UNCHANGED <<old, new, events, cursor, stack, calls>>

NextLocate == GetExpectedXml

SpecLocate == InitLocate /\ [][NextLocate]_vars

(***************************************************************************)
(* Properties of get_expected_xml.                                         *)
(***************************************************************************)
\* The positions of the start events named `tag`.
StartsNamed(tag) ==
    {i \in DOMAIN events : events[i].kind = "StartElement" /\ events[i].name = tag}

\* The expected tag is there and no error record comes before it.
PayloadFound ==
    \E i \in StartsNamed(stack[1].expect) : \A j \in StartsNamed("RT_ERROR") : i < j

\* An error record is there instead of the payload, at position i, with its
\* message, with the text t as the last one inside it, and with nothing but
\* elements, texts and whitespace up to its end event at position e.
ErrorRecordAt(i, e, t) ==
    /\ i \in StartsNamed("RT_ERROR")
    /\ \A j \in StartsNamed("RT_ERROR") \cup StartsNamed(stack[1].expect) : i <= j
    /\ stack[1].expect # "RT_ERROR"
    /\ \E a \in DOMAIN events[i].attributes : events[i].attributes[a].name = "ERROR_MESSAGE"
    /\ e = MatchingEnd(events, i)
    /\ e # 0
    /\ \A j \in 1..e :
          events[j].kind \in {"StartDocument", "StartElement", "EndElement", "Characters",
                              "Whitespace"}
    /\ t \in (i + 1)..(e - 1)
    /\ events[t].kind = "Characters"
    /\ \A j \in (t + 1)..(e - 1) : events[j].kind # "Characters"

\* C21: when a start element with the expected tag is found the document is
\* returned; when the portal embedded an RT_ERROR record instead the result
\* is the remote error with the message and the stack trace of the record;
\* ExpectedTagNotFound(tag) is returned only when neither the expected tag
\* nor an RT_ERROR element occurs anywhere in the document.
C21_PayloadErrorOrNotFound ==
    pc = "done" =>
        /\ PayloadFound => (out.tag = "Ok" /\ out.val = Some(events))
        /\ \A i, e, t \in DOMAIN events :
              ErrorRecordAt(i, e, t) =>
                  /\ out.tag = "Err"
                  /\ out.err.kind = "SVUEError"
                  /\ out.err.svue.error_message
                       = attributes_vec_to_map(events[i].attributes)["ERROR_MESSAGE"]
                  /\ out.err.svue.stack_trace = events[t].name
        /\ (out.tag = "Err" /\ out.err.kind = "ExpectedTagNotFound") =>
              /\ out.err.text = stack[1].expect
              /\ StartsNamed(stack[1].expect) = {}
              /\ StartsNamed("RT_ERROR") = {}

\* An envelope that holds a notice and then an error record: the result is
\* the remote error of the record.
C21_Witness ==
    /\ pc = "done"
    /\ out.tag = "Err"
    /\ out.err.kind = "SVUEError"
    /\ out.err.svue = DecodedSVUEError(PortalMessage, PortalTrace)
    /\ StartsNamed("Notice") # {}
    /\ \E i, e, t \in DOMAIN events : ErrorRecordAt(i, e, t)

(***************************************************************************)
(* Further properties of pair_with.                                        *)
(***************************************************************************)
\* The first |old| pairs are those of the old elements, in the order of old.
OldPairsFirst ==
    /\ Len(out.val) >= Len(old)
    /\ \A i \in DOMAIN old : out.val[i].o = Some(i)

\* The pairs after them are the new elements whose key no old element has,
\* each as (None, Some(n)).
UnmatchedNewAfter ==
    \A p \in (Len(old) + 1)..Len(out.val) :
        /\ IsNone(out.val[p].o)
        /\ IsSome(out.val[p].n)
        /\ unique_key(new[out.val[p].n[1]]) \notin KeysOf(old)

\* C22: in the list pair_with(old, new) returns, the first |old| pairs are
\* the (Some(old_i), match or None) pairs in the order of old, and the pairs
\* (None, Some(n)) of the new elements whose key is absent from old come
\* after them, in the relative order in which those elements occur in new.
C22_PairsInSourceOrder ==
    pc = "done" =>
        /\ OldPairsFirst
        /\ UnmatchedNewAfter
        /\ \A p, q \in (Len(old) + 1)..Len(out.val) :
              p < q => out.val[p].n[1] < out.val[q].n[1]

(***************************************************************************)
(* Further properties of Changeset::diff.                                  *)
(***************************************************************************)
\* A course, an optional course, a book and the result of a diff without
\* the marks after the first of every course.
FirstMarkOnly(course) == [course EXCEPT !.marks = IF @ = <<>> THEN <<>> ELSE <<@[1]>>]
FirstMarkOnlyIn(option) == IF IsSome(option) THEN Some(FirstMarkOnly(option[1])) ELSE None
FirstMarksOnly(book) ==
    [book EXCEPT !.courses = [c \in DOMAIN book.courses |-> FirstMarkOnly(book.courses[c])]]
WithoutLaterMarks(result) ==
    IF result.panic \/ IsNone(result.val) THEN result
    ELSE Returned(Some(
            [old |-> FirstMarksOnly(result.val[1].old),
             new |-> FirstMarksOnly(result.val[1].new),
             changes |->
                [k \in DOMAIN result.val[1].changes |->
                    [result.val[1].changes[k]
                        EXCEPT !.old = FirstMarkOnlyIn(@), !.new = FirstMarkOnlyIn(@)]]]))

\* The old and the new book hold one course each, of one title, with two
\* marks or more, and the two courses differ in a mark after the first and
\* in nothing else.
OnlyLaterMarksDiffer ==
    /\ Len(old.courses) = 1 /\ Len(new.courses) = 1
    /\ Len(old.courses[1].marks) >= 2 /\ Len(new.courses[1].marks) >= 2
    /\ old.courses[1] # new.courses[1]
    /\ FirstMarkOnly(old.courses[1]) = FirstMarkOnly(new.courses[1])

\* C23: the diff of a course present in both books compares the first mark
\* of the old course with the first mark of the new one and no other mark:
\* a difference in the grade or the assignments of a later mark produces no
\* change record, and the result is what it is for the same books without
\* their later marks.
C23_OnlyFirstMarkCompared ==
    pc = "done" =>
        /\ OnlyLaterMarksDiffer => out = Returned(None)
        /\ WithoutLaterMarks(out)
             \in {ChangesetDiff(FirstMarksOnly(old), FirstMarksOnly(new), co, ao) :
                     co \in IterationOrders(KeysOf(new.courses)),
                     ao \in IterationOrders(AssignmentKeys(new))}

\* Two courses that differ in the grade or the assignments of their second
\* mark only: the diff returned None.
C23_Witness ==
    /\ pc = "done"
    /\ OnlyLaterMarksDiffer
    /\ old.courses[1].marks[2] # new.courses[1].marks[2]
    /\ out = Returned(None)

\* The positions of vals whose key an earlier position has as well, and the
\* positions that are the first of their key.
LaterOfKey(vals) ==
    {i \in DOMAIN vals : \E e \in 1..(i - 1) : unique_key(vals[e]) = unique_key(vals[i])}
FirstOfKey(vals) == DOMAIN vals \ LaterOfKey(vals)

\* pair_with(olds, news) pairs the first old element of every key with the
\* new element of that key (the one the map holds: the last in news), and
\* every later old element of the key with nothing.
FirstOfKeyGetsMatch(olds, news) ==
    \A order \in IterationOrders(KeysOf(news)) :
        /\ \A i \in LaterOfKey(olds) :
              pair_with(olds, news, order)[i] = [o |-> Some(i), n |-> None]
        /\ \A i \in FirstOfKey(olds) :
              unique_key(olds[i]) \in KeysOf(news) =>
                  /\ pair_with(olds, news, order)[i].o = Some(i)
                  /\ IsSome(pair_with(olds, news, order)[i].n)
                  /\ unique_key(news[pair_with(olds, news, order)[i].n[1]])
                       = unique_key(olds[i])

\* The entries of the changeset about the old course c1 and a new course,
\* and the records of such an entry that report the assignment a as Removed.
MatchedEntries(c1) ==
    {k \in DOMAIN Changes : Changes[k].old = Some(c1) /\ IsSome(Changes[k].new)}
RemovedRecords(k, a) ==
    IF IsNone(Changes[k].assignment_changes) THEN {}
    ELSE {r \in DOMAIN Changes[k].assignment_changes[1] :
             Changes[k].assignment_changes[1][r]
               = [old |-> Some(a), new |-> None, changes |-> <<[tag |-> "Removed"]>>]}

BareAssignmentCalls ==
    {k \in DOMAIN calls :
        /\ calls[k].entity = "Assignment"
        /\ calls[k].stop > calls[k].start
        /\ MatchingEnd(events, calls[k].start) # 0
        /\ \A j \in (calls[k].start + 1)..(MatchingEnd(events, calls[k].start) - 1) :
              ~(events[j].kind = "StartElement" /\ events[j].name = "Standards")}

\* The Assignment loop goes on after the event: whitespace, an end event
\* not named Standards, the start of a wrapper.
Skipped(event) ==
    \/ event.kind = "Whitespace"
    \/ event.kind = "EndElement" /\ event.name # "Standards"
    \/ event.kind = "StartElement" /\ event.name \in {"Standards", "Resources"}

\* The element of the call k holds nothing the Assignment loop stops at.
NothingStopsInside(k) ==
    \A j \in (calls[k].start + 1)..(MatchingEnd(events, calls[k].start) - 1) :
        Skipped(events[j])

\* The call k pulled the end event of its element and asked for the event
\* after it.
ReadPastOwnEnd(k) ==
    /\ calls[k].stop >= MatchingEnd(events, calls[k].start)
    /\ calls[k].stop = MatchingEnd(events, calls[k].start) =>
          (calls[k].tag = "Err" /\ calls[k].err.kind = "UnexpectedEnd")

\* How the call k ended: at a start event the Assignment loop has no arm
\* for, at the end of the events, or at an end event named Standards.
FailedAtForeignStart(k) ==
    /\ calls[k].tag = "Err"
    /\ calls[k].err = [kind |-> "UnexpectedEvent", attr |-> "", event |-> events[calls[k].stop]]
    /\ events[calls[k].stop].kind = "StartElement"
    /\ events[calls[k].stop].name \notin {"Standard", "Standards", "Resources"}
FailedAtEndOfEvents(k) ==
    /\ calls[k].tag = "Err"
    /\ calls[k].err.kind = "UnexpectedEnd"
    /\ calls[k].stop = Len(events)
StoppedAtStandardsEnd(k) ==
    /\ calls[k].tag = "Ok"
    /\ events[calls[k].stop] = EndElement("Standards")

\* The other ways the call k ends: at an event that is neither a start, an
\* end nor a whitespace event (the end of the document is one), at an error
\* of the tokenizer, or with the failure of a Standard it met on its way.
FailedAtOtherEvent(k) ==
    /\ calls[k].tag = "Err"
    /\ calls[k].err = [kind |-> "UnexpectedEvent", attr |-> "", event |-> events[calls[k].stop]]
    /\ events[calls[k].stop].kind \notin {"StartElement", "EndElement", "Whitespace", "Err"}
FailedAtReaderError(k) ==
    /\ calls[k].tag = "Err"
    /\ calls[k].err.kind = "EventError"
    /\ events[calls[k].stop].kind = "Err"
FailedInStandard(k) ==
    /\ calls[k].tag # "Ok"
    /\ \E c \in DOMAIN calls :
          /\ calls[c].entity = "Standard"
          /\ calls[c].start > calls[k].start
          /\ calls[c].stop = calls[k].stop
          /\ calls[c].tag = calls[k].tag
          /\ calls[c].err = calls[k].err

\* C25 as stated: the Assignment decoder called on an Assignment element
\* without a Standards child reads past the element's end event, and then
\* fails with UnexpectedEvent at the next start event that is not Standard,
\* Standards or Resources, or fails with UnexpectedEnd when the events run
\* out, unless it reaches a later end event named Standards first.
C25_OverrunEndsAtStartOrEnd ==
    \A k \in BareAssignmentCalls :
        NothingStopsInside(k) =>
            /\ ReadPastOwnEnd(k)
            /\ \/ FailedAtForeignStart(k)
               \/ FailedAtEndOfEvents(k)
               \/ StoppedAtStandardsEnd(k)

\* C25, amended: the Assignment decoder called on an Assignment element
\* without a Standards child never returns at the element's end event or
\* before it; when nothing inside the element stops it, it reads past the
\* element's end event.  It stops at the first of: an end event named
\* Standards (it returns); a start event that is not Standard, Standards
\* or Resources, or an event that is neither a start, an end nor a
\* whitespace event, such as the end of the document (UnexpectedEvent); a
\* tokenizer error (EventError); the end of the events (UnexpectedEnd); a
\* Standard start event whose decoding fails (that failure).
C25_OverrunEndsAtFirstStop ==
    \A k \in BareAssignmentCalls :
        /\ NothingStopsInside(k) => ReadPastOwnEnd(k)
        /\ ~(calls[k].tag = "Ok"
             /\ calls[k].stop <= MatchingEnd(events, calls[k].start))
        /\ \/ FailedAtForeignStart(k)
           \/ FailedAtEndOfEvents(k)
           \/ StoppedAtStandardsEnd(k)
           \/ FailedAtOtherEvent(k)
           \/ FailedAtReaderError(k)
           \/ FailedInStandard(k)

\* The last Assignment of a complete document has no children: its decoder
\* reads to the end of the document and fails there.
C25_Witness ==
    /\ pc = "done"
    /\ events = BareAssignmentBase
    /\ \E k \in BareAssignmentCalls :
          /\ FailedAtOtherEvent(k)
          /\ events[calls[k].stop] = EndDocument

\* A change list of an entry about old and new: not empty; the single
\* change `added` when old is absent, the single change `gone` when new is
\* absent, and neither of the two when both are present.
ChangeListFits(o, n, changes, added, gone) ==
    /\ changes # <<>>
    /\ IsSome(o) \/ IsSome(n)
    /\ IsNone(o) => IsOnly(changes, added)
    /\ IsNone(n) => IsOnly(changes, gone)
    /\ (IsSome(o) /\ IsSome(n)) =>
          \A k \in DOMAIN changes : changes[k].tag \notin {"Added", "Dropped", "Removed"}

\* The CourseChanges value is well formed.
WellFormedCourseChanges(entry) ==
    /\ IsSome(entry.changes) \/ IsSome(entry.assignment_changes)
    /\ IsSome(entry.old) \/ IsSome(entry.new)
    /\ (IsNone(entry.old) \/ IsNone(entry.new)) => IsSome(entry.changes)
    /\ IsSome(entry.changes) =>
          ChangeListFits(entry.old, entry.new, entry.changes[1], "Added", "Dropped")
    /\ IsSome(entry.assignment_changes) =>
          /\ entry.assignment_changes[1] # <<>>
          /\ \A r \in DOMAIN entry.assignment_changes[1] :
                ChangeListFits(entry.assignment_changes[1][r].old,
                               entry.assignment_changes[1][r].new,
                               entry.assignment_changes[1][r].changes,
                               "Added", "Removed")

\* C26: every CourseChanges value of a returned changeset is well formed:
\* changes or assignment_changes is present, a present list is not empty,
\* every AssignmentChanges entry has a change list that is not empty, an
\* entry without old has the single change Added and has new, an entry
\* without new has the single change Dropped (Removed for an assignment)
\* and has old, and an entry with both has none of Added, Dropped, Removed.
C26_CourseChangesWellFormed ==
    pc = "done" => \A k \in DOMAIN Changes : WellFormedCourseChanges(Changes[k])

\* A returned changeset with an entry that holds an added, a removed and
\* a changed assignment.
C26_Witness ==
    /\ pc = "done"
    /\ \E k \in DOMAIN Changes :
          /\ IsSome(Changes[k].assignment_changes)
          /\ \E r \in DOMAIN Changes[k].assignment_changes[1] :
                IsNone(Changes[k].assignment_changes[1][r].old)
          /\ \E r \in DOMAIN Changes[k].assignment_changes[1] :
                IsNone(Changes[k].assignment_changes[1][r].new)
          /\ \E r \in DOMAIN Changes[k].assignment_changes[1] :
                /\ IsSome(Changes[k].assignment_changes[1][r].old)
                /\ IsSome(Changes[k].assignment_changes[1][r].new)

\* The steps a decode has left at most: four for every event not yet read,
\* and those of the position within the current iteration.
StepsLeft ==
    4 * (Len(events) - cursor)
    + (CASE pc = "call" -> 4
         [] pc = "enter" -> 3
         [] pc = "leave" -> 2
         [] pc = "decode" -> 1
         [] OTHER -> 0)

\* Every step leaves the cursor or moves it forward by one event; every
\* iteration of a loop that finds an event moves it.
CursorAdvancesByOne ==
    /\ cursor' \in {cursor, cursor + 1}
    /\ (pc = "decode" /\ cursor < Len(events)) => cursor' = cursor + 1

\* A decode that has not ended is at a position from which a step is taken:
\* the entry, an iteration of the loop of the call in progress, the entry
\* of a child at its start event, the return of a child to its caller.
Runnable ==
    \/ pc \in {"call", "done"}
    \/ pc = "decode" /\ stack # <<>>
                     /\ (Top.entity = "Gradebook" \/ HasChildLoop(Top.entity))
    \/ pc = "enter" /\ cursor \in DOMAIN events /\ stack # <<>>
    \/ pc = "leave" /\ Len(stack) >= 2

\* A decode that has not ended takes a step, every step brings the end
\* nearer, and the cursor reads no more events than there are: the decode
\* ends after at most Len(events) reads of an event.
DecodeEnds ==
    /\ [][CursorAdvancesByOne /\ StepsLeft' < StepsLeft]_vars
    /\ [](StepsLeft >= 0 /\ cursor <= Len(events))
    /\ []Runnable

\* C27: decoding ends on every finite event sequence: every iteration of a
\* decoder loop takes one event from the shared cursor, the cursor never
\* moves backwards, and a decode over n events returns a value or an error
\* after at most n event reads.  The decode is the root decoder's, called once
\* the first event was read.
C27_DecodeReturnsWithinEvents ==
    /\ DecodeEnds
    /\ []((pc = "done" /\ cursor >= 1) => out.tag \in {"Ok", "Err"})

\* The calls of the decoder of `tag` that returned a value and ran within
\* the call of their caller, which began at start and ended at stop.
ChildCalls(tag, start, stop) ==
    {c \in DOMAIN calls :
        /\ calls[c].entity = tag
        /\ calls[c].tag = "Ok"
        /\ start < calls[c].start
        /\ calls[c].stop <= stop}

\* The values those calls returned, in the order of their start events.
RECURSIVE InStartOrder(_, _)
InStartOrder(cs, acc) ==
    IF cs = {} THEN acc
    ELSE LET first == CHOOSE c \in cs : \A d \in cs : calls[c].start <= calls[d].start
         IN InStartOrder(cs \ {first}, acc \o calls[first].val)

\* The call k returned a value whose lists hold the values of its children
\* in the order of their start events.
ListsInStartOrder(k) ==
    \A t \in DOMAIN ChildVectors(calls[k].entity) :
        calls[k].val[1][ChildVectors(calls[k].entity)[t]]
          = InStartOrder(ChildCalls(t, calls[k].start, calls[k].stop), <<>>)

\* C28: the decoded lists keep the order of the source: the courses and
\* the report periods of a Gradebook, the marks of a Course, the
\* assignments, grade calculation entries and standard views of a Mark and
\* the standards of an Assignment (and the lists of a StandardView and of a
\* Standard) hold their items in the order in which the items' start
\* events occur in the event sequence.
C28_ListsKeepSourceOrder ==
    \A k \in DOMAIN calls :
        calls[k].tag = "Ok" =>
            IF calls[k].entity = "Gradebook"
            THEN /\ calls[k].val[1].courses
                      = InStartOrder(ChildCalls("Course", calls[k].start, calls[k].stop), <<>>)
                 /\ calls[k].val[1].reporting_periods
                      = InStartOrder(ChildCalls("ReportPeriod", calls[k].start, calls[k].stop),
                                     <<>>)
            ELSE ListsInStartOrder(k)

\* A Gradebook was decoded whose lists of every kind hold two different
\* items.
C28_Witness ==
    /\ pc = "done"
    /\ out.tag = "Ok"
    /\ events = OrderedDocument
    /\ Len(out.val[1].courses) = 2
    /\ out.val[1].courses[1].title # out.val[1].courses[2].title
    /\ out.val[1].reporting_periods[1] # out.val[1].reporting_periods[2]
    /\ Len(out.val[1].courses[1].marks) = 2
    /\ out.val[1].courses[1].marks[1].mark_name = "S2"
    /\ out.val[1].courses[1].marks[2].mark_name = "S1"
    /\ \A f \in {"assignments", "grade_calculation_summary", "standard_views"} :
          /\ Len(out.val[1].courses[1].marks[1][f]) = 2
          /\ out.val[1].courses[1].marks[1][f][1] # out.val[1].courses[1].marks[1][f][2]
    /\ Len(out.val[1].courses[1].marks[1].assignments[1].standards) = 2
    /\ out.val[1].courses[1].marks[1].assignments[1].standards[1].subject = "Writing"
    /\ out.val[1].courses[1].marks[1].assignments[1].standards[2].subject = "Reading"

\* The entities that carry an optional Proficiency.
ProficiencyEntities ==
    {"Standard", "StandardView", "StandardAssignmentView", "StandardScreenAssignment"}

\* The calls of their decoders on a start event that has the attribute, and
\* the text of the attribute.
ProficiencyCalls ==
    {k \in DOMAIN calls :
        /\ calls[k].entity \in ProficiencyEntities
        /\ "Proficiency" \in DOMAIN attributes_vec_to_map(events[calls[k].start].attributes)}
ProficiencyText(k) ==
    attributes_vec_to_map(events[calls[k].start].attributes)["Proficiency"]

\* C29: the Proficiency of a Standard, StandardView, StandardAssignmentView
\* or StandardScreenAssignment decodes to None when the text of the
\* attribute is no number and to Some(value) when it is one; a Proficiency
\* that is no number never fails the decode.
C29_ProficiencyIsOptional ==
    \A k \in ProficiencyCalls :
        /\ ~(calls[k].tag = "Err" /\ calls[k].err.attr = "Proficiency"
             /\ calls[k].err.kind # "MissingAttribute")
        /\ calls[k].tag = "Ok" =>
              /\ calls[k].val[1].proficiency = ParseF64(ProficiencyText(k))
              /\ ProficiencyText(k) \in {"", "x", "N/A", "1.2.3 / 4"} =>
                    calls[k].val[1].proficiency = None
              /\ ProficiencyText(k) = "3.0" =>
                    calls[k].val[1].proficiency = Some([class |-> "finite", n |-> 3, e |-> 0])

\* A StandardScreenAssignment whose Proficiency is "x" was decoded, with
\* no proficiency, and so was the Standard that holds it.
C29_Witness ==
    /\ pc = "done"
    /\ out.tag = "Ok"
    /\ \E k \in ProficiencyCalls :
          /\ calls[k].entity = "StandardScreenAssignment"
          /\ ProficiencyText(k) = "x"
          /\ calls[k].tag = "Ok"
          /\ calls[k].val[1].proficiency = None

\* The calls of the four decoders on a start event without the attribute,
\* and the attributes such a decoder reads before Proficiency.
ProficiencyAbsentCalls ==
    {k \in DOMAIN calls :
        /\ calls[k].entity \in ProficiencyEntities
        /\ "Proficiency"
             \notin DOMAIN attributes_vec_to_map(events[calls[k].start].attributes)}
ReadBeforeProficiency(entity) ==
    {FieldsBeforeChildren(entity)[i].attr : i \in
        {i \in DOMAIN FieldsBeforeChildren(entity) :
            \E j \in (i + 1)..Len(FieldsBeforeChildren(entity)) :
                FieldsBeforeChildren(entity)[j].attr = "Proficiency"}}

\* C30: when a Standard, StandardView, StandardAssignmentView or
\* StandardScreenAssignment element has no Proficiency attribute, the
\* decode fails with MissingAttribute("Proficiency"); it does not return a
\* value with proficiency None.  (An attribute the decoder reads earlier
\* and cannot read fails the decode before that.)
C30_AbsentProficiencyFails ==
    \A k \in ProficiencyAbsentCalls :
        /\ calls[k].tag = "Err"
        /\ calls[k].stop = calls[k].start
        /\ \/ calls[k].err = [kind |-> "MissingAttribute", attr |-> "Proficiency",
                              event |-> NoEvent]
           \/ calls[k].err.attr \in ReadBeforeProficiency(calls[k].entity)
        /\ pc = "done"
        /\ out.tag = "Err"
        /\ out.err = calls[k].err

\* A StandardAssignmentView without the attribute failed the decode of the
\* document that is sound otherwise.
C30_Witness ==
    /\ pc = "done"
    /\ out = [tag |-> "Err", val |-> None,
              err |-> [kind |-> "MissingAttribute", attr |-> "Proficiency",
                       event |-> NoEvent]]
    /\ \E k \in ProficiencyAbsentCalls : calls[k].entity = "StandardAssignmentView"

\* The fields of `fields` that cannot be read from the attributes of the
\* start event at position p: the attribute is absent or does not parse.
Unreadable(fields, p) ==
    {i \in DOMAIN fields :
        \/ fields[i].attr \notin DOMAIN attributes_vec_to_map(events[p].attributes)
        \/ ReadField(fields[i].how,
                     attributes_vec_to_map(events[p].attributes)[fields[i].attr]).tag = "Err"}

\* The error the first unreadable field of `fields` raises.
FirstUnreadable(fields, p) ==
    CHOOSE i \in Unreadable(fields, p) : \A j \in Unreadable(fields, p) : i <= j
ErrorOf(field, p) ==
    IF field.attr \notin DOMAIN attributes_vec_to_map(events[p].attributes)
    THEN [kind |-> "MissingAttribute", attr |-> field.attr, event |-> NoEvent]
    ELSE [kind |-> ReadField(field.how,
                             attributes_vec_to_map(events[p].attributes)[field.attr]).kind,
          attr |-> field.attr, event |-> NoEvent]

\* The attributes the claim says are read early and late, in the order of
\* the reads.
EarlyReads(entity) ==
    IF entity = "Course"
    THEN <<Field("highlight_percentage_cut_off_for_progress_bar",
                 "HighlightPercentageCutOffForProgressBar", "parse_int")>>
    ELSE <<>>
LateReads(entity) ==
    IF entity = "Course"
    THEN <<Field("period", "Period", "parse_int"),
           Field("room", "Room", "get_attr_owned"),
           Field("staff", "Staff", "get_attr_owned"),
           Field("staff_email", "StaffEMail", "get_attr_owned"),
           Field("title", "Title", "CourseTitle")>>
    ELSE <<Field("calculated_score_raw", "CalculatedScoreRaw", "parse_float"),
           Field("calculated_score_string", "CalculatedScoreString", "get_attr_owned"),
           Field("mark_name", "MarkName", "get_attr_owned")>>

\* The calls of the Course and Mark decoders on a start event with an
\* attribute of the late kind that cannot be read, while those of the early
\* kind are sound.
LateDefectCalls ==
    {k \in DOMAIN calls :
        /\ calls[k].entity \in {"Course", "Mark"}
        /\ Unreadable(EarlyReads(calls[k].entity), calls[k].start) = {}
        /\ Unreadable(LateReads(calls[k].entity), calls[k].start) # {}}

\* The calls that failed inside the call k, and the end event on which the
\* loop of the call k broke, if it did.
FailedWithin(k) ==
    {c \in DOMAIN calls : calls[c].start > calls[k].start /\ calls[c].tag # "Ok"}
BrokeOnOwnEnd(k) ==
    /\ calls[k].stop > calls[k].start
    /\ events[calls[k].stop] = EndElement(calls[k].entity)

\* C31: a Course reads HighlightPercentageCutOffForProgressBar before it
\* pulls a child event and its other attributes after its loop broke on
\* its end event; a Mark reads all its attributes after its loop.  So a
\* call with a defective attribute of the second kind does not return a
\* value, and its error is that of the attribute only when the loop has
\* consumed the children's events and broken on the end event with every
\* child decoded; when a child fails, or the events run out first, the
\* error returned is the child's, or UnexpectedEnd.  Stated of the calls
\* of a decode that has ended.
C31_LateAttributeErrors ==
    pc = "done" =>
        /\ \A k \in DOMAIN calls :
              (calls[k].entity = "Course"
               /\ Unreadable(EarlyReads("Course"), calls[k].start) # {}) =>
                  /\ calls[k].tag = "Err"
                  /\ calls[k].stop = calls[k].start
                  /\ calls[k].err.attr = "HighlightPercentageCutOffForProgressBar"
        /\ \A k \in LateDefectCalls :
              /\ calls[k].tag # "Ok"
              /\ out.tag = calls[k].tag /\ out.err = calls[k].err
              /\ \A c \in FailedWithin(k) :
                    calls[k].tag = calls[c].tag /\ calls[k].err = calls[c].err
              /\ (FailedWithin(k) = {} /\ ~BrokeOnOwnEnd(k) /\ calls[k].stop = Len(events)
                  /\ events[Len(events)].kind \in {"StartElement", "EndElement", "Whitespace"}) =>
                    (calls[k].tag = "Err" /\ calls[k].err.kind = "UnexpectedEnd")
              /\ (FailedWithin(k) = {} /\ BrokeOnOwnEnd(k)) =>
                    /\ calls[k].tag = "Err"
                    /\ calls[k].err
                         = ErrorOf(LateReads(calls[k].entity)
                                     [FirstUnreadable(LateReads(calls[k].entity),
                                                      calls[k].start)],
                                   calls[k].start)
              /\ (calls[k].tag = "Err"
                  /\ calls[k].err.kind \in {"MissingAttribute", "IntegerParseError",
                                            "FloatParseError"}
                  /\ \E i \in DOMAIN LateReads(calls[k].entity) :
                        LateReads(calls[k].entity)[i].attr = calls[k].err.attr) =>
                    (FailedWithin(k) = {} /\ BrokeOnOwnEnd(k))

\* The Mark has no MarkName and its second Assignment no GradebookID: the
\* decode returns the Assignment's error, after the first Assignment was
\* decoded.
C31_Witness ==
    /\ pc = "done"
    /\ out.tag = "Err"
    /\ out.err = [kind |-> "MissingAttribute", attr |-> "GradebookID", event |-> NoEvent]
    /\ \E k \in LateDefectCalls :
          /\ calls[k].entity = "Mark"
          /\ "MarkName" \notin DOMAIN attributes_vec_to_map(events[calls[k].start].attributes)
          /\ \E c \in FailedWithin(k) : calls[c].entity = "Assignment"
    /\ \E c \in DOMAIN calls : calls[c].entity = "Assignment" /\ calls[c].tag = "Ok"

\* The text is a number written with digits and dots.
IsNumber(s) ==
    /\ s # ""
    /\ \A i \in 1..Len(s) : CharAt(s, i) \in Digits \cup {"."}
    /\ IsSome(ParseF64(s))

\* The text has the shape "<n> <words> <m>": the ends of <n> and the starts
\* of <m> for which it has.
Splits(text, words) ==
    {ab \in (1..Len(text)) \X (1..Len(text)) :
        /\ ab[1] < ab[2]
        /\ IsNumber(SubSeq(text, 1, ab[1]))
        /\ IsNumber(SubSeq(text, ab[2], Len(text)))
        /\ trim(SubSeq(text, ab[1] + 1, ab[2] - 1)) = words}

\* The text is a number, or a number in parentheses; the number.
IsPercentage(text) ==
    \/ IsNumber(text)
    \/ Len(text) > 2 /\ CharAt(text, 1) = "(" /\ CharAt(text, Len(text)) = ")"
       /\ IsNumber(SubSeq(text, 2, Len(text) - 1))
PercentageOf(text) ==
    IF IsNumber(text) THEN ParseF64(text)[1]
    ELSE ParseF64(SubSeq(text, 2, Len(text) - 1))[1]

\* The classification of a score text in the priority stated.
ClassifiedScore(text) ==
    CASE text = "Not Due" -> ScoreNotDue
      [] text = "" -> ScoreNotForGrading
      [] text = "Not Graded" -> ScoreNotGraded
      [] text = "See Standards" -> ScoreSeeStandards
      [] OTHER ->
           IF Splits(text, "out of") # {}
           THEN The({ScoreScore(ParseF64(SubSeq(text, 1, ab[1]))[1],
                                ParseF64(SubSeq(text, ab[2], Len(text)))[1]) :
                        ab \in {CHOOSE ab \in Splits(text, "out of") : TRUE}})
           ELSE IF IsPercentage(text) THEN ScorePercentage(PercentageOf(text))
           ELSE ScoreUnparseable(text)

\* C32: AssignmentScore::parse classifies in a fixed priority: "Not Due",
\* "", "Not Graded" and "See Standards" give NotDue, NotForGrading,
\* NotGraded and SeeStandards; otherwise a text of the shape
\* "<n> out of <m>" gives Score(n, m); otherwise a number, bare or in
\* parentheses, gives Percentage(n); otherwise the text gives
\* Unparseable(text).
C32_ScoreClassifiedInPriority ==
    (pc = "done" /\ stack[1].parser = "AssignmentScore") =>
        out = Returned(ClassifiedScore(stack[1].text))

\* The runs of digits and dots of the text that end where, after white
\* space, `words` follow; the leftmost and longest of them.
RunsBefore(text, words) ==
    {ij \in (1..Len(text)) \X (1..Len(text)) :
        /\ ij[1] <= ij[2]
        /\ \A c \in ij[1]..ij[2] : CharAt(text, c) \in Digits \cup {"."}
        /\ StartsWithAt(text, SkipWhitespace(text, ij[2] + 1), words)}
RunBefore(text, words) ==
    CHOOSE ij \in RunsBefore(text, words) :
        \A kl \in RunsBefore(text, words) :
            ij[1] < kl[1] \/ (ij[1] = kl[1] /\ ij[2] >= kl[2])

\* The longest run of digits and dots that follows position j after white
\* space: its start and its end (the end is before the start when there is
\* none).
RunAfter(text, j) ==
    <<SkipWhitespace(text, j + 1),
      Greatest({SkipWhitespace(text, j + 1) - 1}
               \cup {l \in SkipWhitespace(text, j + 1)..Len(text) :
                        \A c \in SkipWhitespace(text, j + 1)..l :
                            CharAt(text, c) \in Digits \cup {"."}})>>

\* The classification of a points text as stated: with "Points Possible",
\* the number in front of these words; without, the numbers around a "/".
ClassifiedPoints(text) ==
    IF Contains(text, "Points Possible")
    THEN IF RunsBefore(text, "Points Possible") # {}
            /\ IsNumber(SubSeq(text, RunBefore(text, "Points Possible")[1],
                               RunBefore(text, "Points Possible")[2]))
         THEN PointsUngraded(ParseF64(SubSeq(text, RunBefore(text, "Points Possible")[1],
                                             RunBefore(text, "Points Possible")[2]))[1])
         ELSE PointsUnparseable(text)
    ELSE LET firsts == {ij \in RunsBefore(text, "/") :
                           /\ RunAfter(text, SkipWhitespace(text, ij[2] + 1))[2]
                                >= RunAfter(text, SkipWhitespace(text, ij[2] + 1))[1]}
             ij == CHOOSE ij \in firsts :
                      \A kl \in firsts : ij[1] < kl[1] \/ (ij[1] = kl[1] /\ ij[2] >= kl[2])
             kl == RunAfter(text, SkipWhitespace(text, ij[2] + 1))
         IN IF firsts # {}
               /\ IsNumber(SubSeq(text, ij[1], ij[2]))
               /\ IsNumber(SubSeq(text, kl[1], kl[2]))
            THEN PointsGraded(ParseF64(SubSeq(text, ij[1], ij[2]))[1],
                              ParseF64(SubSeq(text, kl[1], kl[2]))[1])
            ELSE PointsUnparseable(text)

\* C33: AssignmentPoints::parse returns Ungraded(n), n the number in front
\* of the words, when the text contains "Points Possible"; only a text
\* without these words is tried for the shape "<n>/<m>" and gives
\* Graded(n, m); every other text gives Unparseable(text): a text with
\* "Points Possible" and no number in front of it is Unparseable also when
\* it contains "<n>/<m>".
C33_PointsClassified ==
    (pc = "done" /\ stack[1].parser = "AssignmentPoints") =>
        out = Returned(ClassifiedPoints(stack[1].text))

\* The ways to read the whole title as "<name> (<id>)": the end of the name
\* and the position of the opening parenthesis, with white space between
\* the two and the closing parenthesis at the end of the title.
WholeTitleSplits(title) ==
    {eo \in (1..Len(title)) \X (1..Len(title)) :
        /\ eo[2] > eo[1] + 1
        /\ \A c \in (eo[1] + 1)..(eo[2] - 1) : CharAt(title, c) \in Whitespace
        /\ CharAt(title, eo[2]) = "("
        /\ Len(title) > eo[2] + 1
        /\ CharAt(title, Len(title)) = ")"}

\* C34: CourseTitle::parse returns Parsed(name, id) exactly when the whole
\* title has the shape "<name> (<id>)", name and id being the text before
\* and inside the parentheses, and Unparseable(title) for every other
\* title.
C34_TitleParsedWhenWholeShape ==
    (pc = "done" /\ stack[1].parser = "CourseTitle") =>
        /\ ~out.panic
        /\ IF WholeTitleSplits(stack[1].text) # {}
           THEN out.val \in {TitleParsed(SubSeq(stack[1].text, 1, eo[1]),
                                         SubSeq(stack[1].text, eo[2] + 1,
                                                Len(stack[1].text) - 1)) :
                                eo \in WholeTitleSplits(stack[1].text)}
           ELSE out.val = TitleUnparseable(stack[1].text)

(***************************************************************************)
(* attributes_vec_to_map on its own: the attribute lists of up to          *)
(* MaxAttributes attributes over a few names and values, names repeated    *)
(* included, each the list of one start event.                             *)
(***************************************************************************)
MaxAttributes == 3

AttributeNames == {"Type", "Title"}
AttributeValues == {"", "Lunch", "Homework"}

AttributeLists ==
    SeqsUpTo({Attribute(n, v) : n \in AttributeNames, v \in AttributeValues}, MaxAttributes)

InitAttributes ==
    /\ events \in {<<StartElement("Course", attributes)>> : attributes \in AttributeLists}
    /\ old = None
    /\ new = None
    /\ out = Panic
    /\ pc = "call"
    /\ cursor = 1
    /\ stack = <<>>
    /\ calls = <<>>

\* The map of the attributes of the start event is built.
AttributesVecToMap ==
    /\ pc = "call"
    /\ out' = Ok(attributes_vec_to_map(events[1].attributes))
    /\ pc' = "done"
    /\ UNCHANGED <<old, new, events, cursor, stack, calls>>

NextAttributes == AttributesVecToMap

SpecAttributes == InitAttributes /\ [][NextAttributes]_vars

\* The positions of the attribute list that hold the name.
PositionsOf(attributes, name) == {j \in DOMAIN attributes : attributes[j].name = name}

\* C35: attributes_vec_to_map maps every attribute name of the element to
\* a value; for a name that occurs several times in the list the value of
\* its last occurrence is the one stored; a name that does not occur in
\* the list is not in the map.
C35_LastAttributeWins ==
    pc = "done" =>
        /\ out.tag = "Ok"
        /\ DOMAIN out.val[1] = {events[1].attributes[j].name : j \in DOMAIN events[1].attributes}
        /\ \A name \in DOMAIN out.val[1] :
              out.val[1][name]
                = events[1].attributes[Greatest(PositionsOf(events[1].attributes, name))].value

\* A list in which Title occurs twice with different values and Type
\* does not occur: the map holds the second value of Title and no Type.
C35_Witness ==
    /\ pc = "done"
    /\ events[1].attributes = <<Attribute("Title", "Lunch"), Attribute("Title", "Homework")>>
    /\ out.val[1]["Title"] = "Homework"
    /\ "Type" \notin DOMAIN out.val[1]

====
